---------------------------- MODULE Spec2Model ----------------------------
(* Transmission RPC adapter (src/src/transmission_webui.cpp) as a state    *)
(* machine: one action per RPC request, handled to completion.             *)
EXTENDS Integers, Sequences, FiniteSets, TLC

VARIABLES
    torrents,        \* m_ses: torrent id -> per-torrent engine state
    next_id,         \* m_ses: id the engine gives the next added torrent
    settings,        \* m_ses.get_settings(): the engine's settings_pack
    pe_settings,     \* m_ses.get_pe_settings()
    listen_port,     \* m_ses.listen_port()
    m_params_model,  \* the add-torrent template
    m_settings,      \* the optional settings store
    req,             \* the request handled last
    prev,            \* when req is a query (torrent-get, session-get) that
                     \* followed another request at once: that request
    buf,             \* the response buffer after the handler returned
    calls,           \* engine and store calls made by the last request
    conn,            \* what handle_http did with the HTTP request handled
                     \* last: the stages it went through, the responses it
                     \* wrote to the connection and how it returned
    workers,         \* the requests being handled at the same time on the
                     \* workers of the HTTP server: what each is doing, where
                     \* it is in its handler and its copy of the template
    seed_phase       \* history of each torrent id: "seed_wait" since it
                     \* went from downloading to seeding while paused and
                     \* for as long as it stays paused; "resumed" since
                     \* torrent-start resumed it from there and for as long
                     \* as it stays unpaused; "none" otherwise

vars == <<torrents, next_id, settings, pe_settings, listen_port,
          m_params_model, m_settings, req, prev, buf, calls, conn,
          workers, seed_phase>>

engine == <<torrents, next_id, settings, pe_settings, listen_port>>
adapter == <<m_params_model, m_settings>>

-----------------------------------------------------------------------------
(* Bounds of the model.                                                    *)

\* most key/value pairs in the arguments object of one request
MaxKeys == 2
\* most torrents the engine ever holds ids for
MaxTorrents == 2
\* files per torrent
NumFiles == 2

-----------------------------------------------------------------------------
(* JSON tokens (jsmn): a value is a token with its type and its text.      *)

IntTok(n) == [type |-> "primitive", lit |-> "int", n |-> n, s |-> "", items |-> <<>>]
BoolTok(b) == [type |-> "primitive", lit |-> IF b THEN "true" ELSE "false",
               n |-> 0, s |-> "", items |-> <<>>]
NullTok == [type |-> "primitive", lit |-> "null", n |-> 0, s |-> "", items |-> <<>>]
StrTok(s) == [type |-> "string", lit |-> "", n |-> 0, s |-> s, items |-> <<>>]
ArrTok(items) == [type |-> "array", lit |-> "", n |-> 0, s |-> "", items |-> items]

\* atoi() of a token's text: the number of an integer literal, 0 for text
\* that does not start with a digit
atoi(tok) == IF tok.type = "primitive" /\ tok.lit = "int" THEN tok.n ELSE 0

\* strcmp(value, lit) == 0 on the token's null-terminated text
text_is(tok, lit) ==
    \/ tok.type = "string" /\ tok.s = lit
    \/ tok.type = "primitive" /\ tok.lit = lit

\* the token's text as a C string (string tokens; literals true/false/null)
text_of(tok) == IF tok.type = "string" THEN tok.s ELSE tok.lit

\* C integer division truncates toward zero
CDiv(a, b) == IF a >= 0 THEN a \div b ELSE -((-a) \div b)

\* an arguments object: a sequence of <<key, value token>> in document order
NoKey == [found |-> FALSE, tok |-> NullTok]

RECURSIVE find_key_from(_, _, _, _)
find_key_from(args, i, key, type) ==
    IF i > Len(args) THEN NoKey
    ELSE IF args[i][1] = key /\ args[i][2].type = type
         THEN [found |-> TRUE, tok |-> args[i][2]]
         ELSE find_key_from(args, i + 1, key, type)

find_key(args, key, type) == find_key_from(args, 1, key, type)

find_int(args, key) == LET k == find_key(args, key, "primitive")
                       IN IF k.found THEN atoi(k.tok) ELSE 0
found_int(args, key) == find_key(args, key, "primitive").found
find_bool(args, key) == LET k == find_key(args, key, "primitive")
                        IN k.found /\ k.tok.lit = "true"
find_string(args, key) == LET k == find_key(args, key, "string")
                          IN IF k.found THEN k.tok.s ELSE ""
found_string(args, key) == find_key(args, key, "string").found

-----------------------------------------------------------------------------
(* Permissions (permissions_interface): one predicate per operation, and   *)
(* allow_get_settings / allow_set_settings per setting id.                 *)

\* -1: settings of the adapter that the engine does not hold
no_setting == "-1"

SettingIds == {"cache_size", "active_downloads", "active_seeds",
               "download_rate_limit", "upload_rate_limit",
               "enable_incoming_utp", "enable_outgoing_utp",
               "connections_limit"}

PermNames == {"add", "remove", "list", "start", "stop", "recheck",
              "session_status"}

AllIds == SettingIds \cup {no_setting}

\* a permission set: the operations allowed, the setting ids allowed to be
\* read and the setting ids allowed to be set
AllowAll == [ops |-> PermNames, get |-> AllIds, set |-> AllIds]
DenyAll == [ops |-> {}, get |-> {}, set |-> {}]
DenyOp(o) == [ops |-> PermNames \ {o}, get |-> AllIds, set |-> AllIds]
DenyGet(k) == [ops |-> PermNames, get |-> AllIds \ {k}, set |-> AllIds]
DenySet(k) == [ops |-> PermNames, get |-> AllIds, set |-> AllIds \ {k}]

allow(p, o) == o \in p.ops
allow_get_settings(p, k) == k \in p.get
allow_set_settings(p, k) == k \in p.set

-----------------------------------------------------------------------------
(* The response buffer: the envelopes appended to it, in order.            *)

failure_envelope(msg, tag) == [result |-> msg, tag |-> tag]
success_envelope(tag, arguments) ==
    [result |-> "success", tag |-> tag, arguments |-> arguments]

\* variant of return_failure that does not pass the tag on
return_failure_untagged(b, msg, tag) == <<failure_envelope(msg, -1)>>

\* buf.clear(); appendf(buf, "{ \"result\": \"%s\", \"tag\": %d}", msg, tag)
return_failure(b, msg, tag) == <<failure_envelope(msg, tag)>>

appendf(b, envelope) == Append(b, envelope)

to_bool(b) == IF b THEN "true" ELSE "false"

-----------------------------------------------------------------------------
(* The engine's calls, as the adapter uses them.                           *)

\* m_ses.listen_on(std::make_pair(port, port+1), ec): the engine binds the
\* first port of the range, or the second, or none (ec set, ignored)
ListenOutcomes == {"first", "second", "fail"}
listen_on(port, outcome) ==
    CASE outcome = "first" -> port
      [] outcome = "second" -> port + 1
      [] OTHER -> 0

\* m_ses.apply_settings(pack): the settings the pack holds replace the
\* engine's, the others stay
apply_settings(sett, pack) ==
    [k \in DOMAIN sett |-> IF k \in DOMAIN pack THEN pack[k] ELSE sett[k]]

\* variant of pack_set that keeps the value the pack already holds
pack_set_keeps_first(pack, k, v) ==
    [x \in DOMAIN pack \cup {k} |-> IF x \in DOMAIN pack THEN pack[x] ELSE v]

\* pack.set_int(k, v) / pack.set_bool(k, v)
pack_set(pack, k, v) ==
    [x \in DOMAIN pack \cup {k} |-> IF x = k THEN v ELSE pack[x]]

EmptyPack == [x \in {} |-> 0]

-----------------------------------------------------------------------------
(* The settings store (save_settings_interface): NULL, or two optional     *)
(* keys; an absent key is the empty sequence.                              *)

NoStore == [present |-> FALSE, save_path |-> <<>>, listen_port |-> <<>>]
Store(sp, lp) == [present |-> TRUE, save_path |-> sp, listen_port |-> lp]

get_str_save_path(store, default) ==
    IF store.save_path = <<>> THEN default ELSE store.save_path[1]
get_int_listen_port(store, default) ==
    IF store.listen_port = <<>> THEN default ELSE store.listen_port[1]

-----------------------------------------------------------------------------
(* session-get.                                                            *)

Forced == "forced"
Enabled == "enabled"

\* the arguments object of the session-get response
session_arguments(sett, pes, port, params, free_space) ==
    [ k \in {"alt-speed-down", "alt-speed-enabled", "alt-speed-time-begin",
             "alt-speed-time-enabled", "alt-speed-time-end",
             "alt-speed-time-day", "alt-speed-up", "blocklist-url",
             "blocklist-enabled", "blocklist-size", "cache-size-mb",
             "config-dir", "download-dir", "download-dir-free-space",
             "download-queue-size", "download-queue-enabled",
             "seed-queue-size", "seed-queue-enabled", "speed-limit-down",
             "speed-limit-up", "speed-limit-down-enabled",
             "speed-limit-up-enabled", "start-added-torrents", "utp-enabled",
             "version", "peer-port", "peer-limit-global", "encryption"} |->
      CASE k = "cache-size-mb" -> CDiv(sett["cache_size"] * 16, 1024)
        [] k = "download-dir" -> params.save_path
        [] k = "download-dir-free-space" -> free_space
        [] k = "download-queue-size" -> sett["active_downloads"]
        [] k = "seed-queue-size" -> sett["active_seeds"]
        [] k = "speed-limit-down" -> CDiv(sett["download_rate_limit"], 1000)
        [] k = "speed-limit-up" -> CDiv(sett["upload_rate_limit"], 1000)
        [] k = "speed-limit-down-enabled" ->
               to_bool(sett["download_rate_limit"] > 0)
        [] k = "speed-limit-up-enabled" ->
               to_bool(sett["upload_rate_limit"] > 0)
        [] k = "start-added-torrents" ->
               to_bool(params.flags.auto_managed \/ ~params.flags.paused)
        [] k = "utp-enabled" ->
               to_bool(sett["enable_incoming_utp"] \/ sett["enable_outgoing_utp"])
        [] k = "version" -> sett["user_agent"]
        [] k = "peer-port" -> port
        [] k = "peer-limit-global" -> sett["connections_limit"]
        [] k = "encryption" ->
               IF pes.in_enc_policy = Forced THEN "required"
               ELSE IF pes.prefer_rc4 THEN "preferred" ELSE "tolerated"
        [] k \in {"blocklist-url", "config-dir"} -> ""
        [] k \in {"alt-speed-enabled", "alt-speed-time-enabled",
                  "blocklist-enabled"} -> "false"
        [] k \in {"download-queue-enabled", "seed-queue-enabled"} -> "true"
        [] OTHER -> 0 ]

\* free_disk_space(save_path): what the volume reports
FreeSpaces == {4096}

get_session(r, free_space) ==
    /\ buf' = IF ~allow_get_settings(r.perms, no_setting)
              THEN return_failure(<<>>, "permission denied", r.tag)
              ELSE appendf(<<>>, success_envelope(r.tag,
                       session_arguments(settings, pe_settings, listen_port,
                                         m_params_model, free_space)))
    /\ calls' = <<>>
    /\ UNCHANGED <<engine, adapter>>

-----------------------------------------------------------------------------
(* session-set: one operator per recognized key. st is the handler's       *)
(* running state: the pending settings_pack, the template, the store, the  *)
(* engine's listen port and the calls made so far.                         *)

key_cache_size_mb(st, value, p) ==
    IF ~allow_set_settings(p, "cache_size") THEN st
    ELSE [st EXCEPT !.pack =
            pack_set(@, "cache_size", CDiv(atoi(value) * 1024, 16))]

\* variant of key_download_dir that does not write the store
key_download_dir_template_only(st, value, p) ==
    IF ~allow_set_settings(p, no_setting) THEN st
    ELSE [st EXCEPT !.params.save_path = text_of(value)]

key_download_dir(st, value, p) ==
    IF ~allow_set_settings(p, no_setting) THEN st
    ELSE [st EXCEPT !.params.save_path = text_of(value),
                    !.store = IF @.present
                              THEN [@ EXCEPT !.save_path = <<text_of(value)>>]
                              ELSE @]

key_download_queue_size(st, value, p) ==
    IF ~allow_set_settings(p, "active_downloads") THEN st
    ELSE [st EXCEPT !.pack = pack_set(@, "active_downloads", atoi(value))]

key_seed_queue_size(st, value, p) ==
    IF ~allow_set_settings(p, "active_seeds") THEN st
    ELSE [st EXCEPT !.pack = pack_set(@, "active_seeds", atoi(value))]

key_speed_limit_down(st, value, p) ==
    IF ~allow_set_settings(p, "download_rate_limit") THEN st
    ELSE [st EXCEPT !.pack =
            pack_set(@, "download_rate_limit", atoi(value) * 1000)]

key_speed_limit_up(st, value, p) ==
    IF ~allow_set_settings(p, "upload_rate_limit") THEN st
    ELSE [st EXCEPT !.pack =
            pack_set(@, "upload_rate_limit", atoi(value) * 1000)]

\* the placeholder rate written when a limit is switched on
EnabledRate == 100000

\* variant of key_speed_limit_down_enabled that keeps the rate it finds
\* when the limit is switched on
key_speed_limit_down_enabled_keeps(st, value, p) ==
    IF ~allow_set_settings(p, "download_rate_limit") THEN st
    ELSE IF text_is(value, "true") THEN st
    ELSE [st EXCEPT !.pack = pack_set(@, "download_rate_limit", 0)]

key_speed_limit_down_enabled(st, value, p) ==
    IF ~allow_set_settings(p, "download_rate_limit") THEN st
    ELSE [st EXCEPT !.pack =
            pack_set(@, "download_rate_limit",
                     IF text_is(value, "true") THEN EnabledRate ELSE 0)]

key_speed_limit_up_enabled(st, value, p) ==
    IF ~allow_set_settings(p, "upload_rate_limit") THEN st
    ELSE [st EXCEPT !.pack =
            pack_set(@, "upload_rate_limit",
                     IF text_is(value, "true") THEN EnabledRate ELSE 0)]

\* variant of key_start_added_torrents where true undoes what false did
key_start_added_torrents_both_ways(st, value, p) ==
    IF ~allow_set_settings(p, no_setting) THEN st
    ELSE LET start == text_is(value, "true")
         IN [st EXCEPT !.params.flags.paused = ~start,
                       !.params.flags.auto_managed = start]

\* flags |= start ? 0 : flag_paused; flags &= ~(start ? 0 : flag_auto_managed)
key_start_added_torrents(st, value, p) ==
    IF ~allow_set_settings(p, no_setting) THEN st
    ELSE LET start == text_is(value, "true")
         IN [st EXCEPT !.params.flags.paused = IF start THEN @ ELSE TRUE,
                       !.params.flags.auto_managed = IF start THEN @ ELSE FALSE]

\* variant of key_peer_port that does not write the store
key_peer_port_engine_only(st, value, p) ==
    IF ~allow_set_settings(p, no_setting) THEN st
    ELSE LET port == atoi(value)
         IN [st EXCEPT !.port = listen_on(port, st.outcome),
                       !.calls = Append(@, [op |-> "listen_on", port |-> port])]

key_peer_port(st, value, p) ==
    IF ~allow_set_settings(p, no_setting) THEN st
    ELSE LET port == atoi(value)
         IN [st EXCEPT !.port = listen_on(port, st.outcome),
                       !.calls = Append(@, [op |-> "listen_on", port |-> port]),
                       !.store = IF @.present
                                 THEN [@ EXCEPT !.listen_port = <<port>>]
                                 ELSE @]

\* both halves of the guard ask for enable_outgoing_utp
key_utp_enabled(st, value, p) ==
    IF \/ ~allow_set_settings(p, "enable_outgoing_utp")
       \/ ~allow_set_settings(p, "enable_outgoing_utp") THEN st
    ELSE LET utp == text_is(value, "true")
         IN [st EXCEPT !.pack = pack_set(pack_set(@, "enable_outgoing_utp", utp),
                                         "enable_incoming_utp", utp)]

key_peer_limit_global(st, value, p) ==
    IF ~allow_set_settings(p, "connections_limit") THEN st
    ELSE [st EXCEPT !.pack = pack_set(@, "connections_limit", atoi(value))]

\* the policy the key computes in its local copy of the engine's pe_settings
encryption_pes(pes, value) ==
    IF text_is(value, "required")
    THEN [in_enc_policy |-> Forced, out_enc_policy |-> Forced,
          allowed_enc_level |-> "rc4", prefer_rc4 |-> TRUE]
    ELSE IF text_is(value, "preferred")
    THEN [in_enc_policy |-> Enabled, out_enc_policy |-> Enabled,
          allowed_enc_level |-> "both", prefer_rc4 |-> TRUE]
    ELSE [in_enc_policy |-> Enabled, out_enc_policy |-> Enabled,
          allowed_enc_level |-> "both", prefer_rc4 |-> FALSE]

\* pes is a local of the branch: it is filled in and goes out of scope, the
\* handler never hands it back to the engine (no set_pe_settings call)
key_encryption(st, value, p) ==
    IF ~allow_set_settings(p, no_setting) THEN st
    ELSE LET pes == encryption_pes(st.pes, value)
         IN st

set_session_key(st, key, value, p) ==
    CASE key = "alt-speed-down" -> st
      [] key = "cache-size-mb" -> key_cache_size_mb(st, value, p)
      [] key = "download-dir" -> key_download_dir(st, value, p)
      [] key = "download-queue-size" -> key_download_queue_size(st, value, p)
      [] key = "seed-queue-size" -> key_seed_queue_size(st, value, p)
      [] key = "speed-limit-down" -> key_speed_limit_down(st, value, p)
      [] key = "speed-limit-up" -> key_speed_limit_up(st, value, p)
      [] key = "speed-limit-down-enabled" ->
             key_speed_limit_down_enabled(st, value, p)
      [] key = "speed-limit-up-enabled" ->
             key_speed_limit_up_enabled(st, value, p)
      [] key = "start-added-torrents" -> key_start_added_torrents(st, value, p)
      [] key = "peer-port" -> key_peer_port(st, value, p)
      [] key = "utp-enabled" -> key_utp_enabled(st, value, p)
      [] key = "peer-limit-global" -> key_peer_limit_global(st, value, p)
      [] key = "encryption" -> key_encryption(st, value, p)
      [] OTHER -> st

RECURSIVE set_session_loop(_, _, _, _)
set_session_loop(args, i, st, p) ==
    IF i > Len(args) THEN st
    ELSE set_session_loop(args, i + 1,
                          set_session_key(st, args[i][1], args[i][2], p), p)

\* the handler's state when the loop is over
set_session_run(args, p, outcome) ==
    set_session_loop(args, 1,
        [pack |-> EmptyPack, params |-> m_params_model, store |-> m_settings,
         port |-> listen_port, pes |-> pe_settings, calls |-> <<>>,
         outcome |-> outcome], p)

\* the handler read through a null pointer and the process stopped
Fault == <<[op |-> "null dereference"]>>

\* args->size of a request without arguments reads through a null pointer:
\* the process stops there, or goes on as with no keys
set_session(r) ==
    \E fault \in (IF r.arguments THEN {FALSE} ELSE BOOLEAN) :
      IF fault
      THEN /\ calls' = Fault
           /\ buf' = <<>>
           /\ UNCHANGED <<engine, adapter>>
      ELSE LET st == set_session_run(r.args, r.perms, r.outcome)
           IN /\ settings' = apply_settings(settings, st.pack)
              /\ pe_settings' = pe_settings
              /\ listen_port' = st.port
              /\ m_params_model' = st.params
              /\ m_settings' = st.store
              /\ calls' = st.calls
                            \o <<[op |-> "apply_settings", pack |-> st.pack]>>
                            \o (IF m_settings.present THEN <<[op |-> "save"]>>
                                ELSE <<>>)
              /\ buf' = <<>>
              /\ UNCHANGED <<torrents, next_id>>

-----------------------------------------------------------------------------
(* Torrents in the engine.                                                 *)

States == {"queued_for_checking", "checking_files", "downloading_metadata",
           "downloading", "finished", "seeding", "allocating",
           "checking_resume_data"}

\* wire status values
TR_STATUS_STOPPED == 0
TR_STATUS_CHECK_WAIT == 1
TR_STATUS_CHECK == 2
TR_STATUS_DOWNLOAD_WAIT == 3
TR_STATUS_DOWNLOAD == 4
TR_STATUS_SEED_WAIT == 5
TR_STATUS_SEED == 6

\* variant of torrent_tr_status without the test for a stopped torrent
torrent_tr_status_never_stopped(ts) ==
    CASE ts.state = "checking_files" ->
           IF ts.paused THEN TR_STATUS_CHECK_WAIT ELSE TR_STATUS_CHECK
      [] ts.state \in {"downloading_metadata", "downloading", "allocating"} ->
           IF ts.paused THEN TR_STATUS_DOWNLOAD_WAIT ELSE TR_STATUS_DOWNLOAD
      [] ts.state \in {"seeding", "finished"} ->
           IF ts.paused THEN TR_STATUS_SEED_WAIT ELSE TR_STATUS_SEED
      [] OTHER -> TR_STATUS_STOPPED

\* checking_resume_data assigns res and breaks out of the switch; what
\* follows the switch returns TR_STATUS_STOPPED, res is never returned.
\* A state outside the cases reaches TORRENT_ASSERT(false), which a release
\* build compiles away.
torrent_tr_status(ts) ==
    IF ts.paused /\ ~ts.auto_managed THEN TR_STATUS_STOPPED
    ELSE CASE ts.state = "checking_resume_data" -> TR_STATUS_STOPPED
           [] ts.state = "checking_files" ->
                IF ts.paused THEN TR_STATUS_CHECK_WAIT ELSE TR_STATUS_CHECK
           [] ts.state \in {"downloading_metadata", "downloading", "allocating"} ->
                IF ts.paused THEN TR_STATUS_DOWNLOAD_WAIT ELSE TR_STATUS_DOWNLOAD
           [] ts.state \in {"seeding", "finished"} ->
                IF ts.paused THEN TR_STATUS_SEED_WAIT ELSE TR_STATUS_SEED
           [] OTHER -> TR_STATUS_STOPPED

TR_TRACKER_INACTIVE == 0
TR_TRACKER_WAITING == 1
TR_TRACKER_QUEUED == 2
TR_TRACKER_ACTIVE == 3

\* announce_entry(url): a tracker as the engine holds it when it is added
announce_entry(url) ==
    [url |-> url, updating |-> FALSE, fails |-> 0, fail_limit |-> 0,
     verified |-> FALSE, start_sent |-> FALSE]

\* variant of tracker_status that looks at paused before updating
tracker_status_paused_first(ae, ts) ==
    IF ts.paused THEN TR_TRACKER_INACTIVE
    ELSE IF ae.updating THEN TR_TRACKER_ACTIVE
    ELSE IF ae.fails >= ae.fail_limit THEN TR_TRACKER_INACTIVE
    ELSE IF ae.verified /\ ae.start_sent THEN TR_TRACKER_WAITING
    ELSE TR_TRACKER_QUEUED

tracker_status(ae, ts) ==
    IF ae.updating THEN TR_TRACKER_ACTIVE
    ELSE IF ts.paused THEN TR_TRACKER_INACTIVE
    ELSE IF ae.fails >= ae.fail_limit THEN TR_TRACKER_INACTIVE
    ELSE IF ae.verified /\ ae.start_sent THEN TR_TRACKER_WAITING
    ELSE TR_TRACKER_QUEUED

TR_PRI_LOW == -1
TR_PRI_NORMAL == 0
TR_PRI_HIGH == 1

\* variant of tr_file_priority that reports normal files as high
tr_file_priority_from_normal(prio) ==
    IF prio = 1 THEN TR_PRI_LOW
    ELSE IF prio >= 2 THEN TR_PRI_HIGH
    ELSE TR_PRI_NORMAL

tr_file_priority(prio) ==
    IF prio = 1 THEN TR_PRI_LOW
    ELSE IF prio > 2 THEN TR_PRI_HIGH
    ELSE TR_PRI_NORMAL

\* std::uint32_t of an int: n modulo 2^32. The ints of the model lie within
\* 32 bits, where no two share a residue, so n stands for its residue (a
\* negative n for n + 2^32, which is the id of no torrent)
to_uint32(n) == n

RECURSIVE ids_of_items(_, _)
ids_of_items(items, i) ==
    IF i > Len(items) THEN {}
    ELSE {to_uint32(atoi(items[i]))} \cup ids_of_items(items, i + 1)

\* the ids the request names; empty when it names none
parse_ids(args) ==
    LET ids_ent == find_key(args, "ids", "array")
    IN IF ids_ent.found THEN ids_of_items(ids_ent.tok.items, 1)
       ELSE LET id == find_int(args, "ids")
            IN IF id = 0 THEN {} ELSE {to_uint32(id)}

\* the handles the request acts on: all when parse_ids gives none
get_torrents(args) ==
    LET torrent_ids == parse_ids(args)
    IN IF torrent_ids = {} THEN DOMAIN torrents
       ELSE {i \in DOMAIN torrents : i \in torrent_ids}

-----------------------------------------------------------------------------
(* torrent-add.                                                            *)

UrlFilenames == {"http://h/a.torrent", "https://h/a.torrent", "magnet:?xt=urn:btih:AA"}
\* files torrent_info can load, and metainfo strings that decode to a torrent
GoodFiles == {"a.torrent"}
GoodMetainfo == {"ZDg6YW5ub3VuY2U"}

\* url.substr(0, 7) == "http://" || url.substr(0, 8) == "https://"
\* || url.substr(0, 7) == "magnet:"
has_url_prefix(url) == url \in UrlFilenames

add_torrent_flags(flags, paused) ==
    IF paused THEN [flags EXCEPT !.paused = TRUE, !.auto_managed = FALSE]
    ELSE [flags EXCEPT !.paused = FALSE, !.auto_managed = TRUE]

\* variant of add_torrent_params that always takes the constructor's path
add_torrent_params_default_path(args) ==
    LET save_path == find_string(args, "download-dir")
    IN [save_path |-> IF save_path # "" THEN save_path ELSE ".",
        flags |-> add_torrent_flags(m_params_model.flags,
                                    find_bool(args, "paused"))]

\* the add_torrent_params handed to the engine
add_torrent_params(args) ==
    LET save_path == find_string(args, "download-dir")
    IN [save_path |-> IF save_path # "" THEN save_path
                      ELSE m_params_model.save_path,
        flags |-> add_torrent_flags(m_params_model.flags,
                                    find_bool(args, "paused"))]

\* the error message of a torrent_info that fails to load; "" when it loads
add_torrent_error(args) ==
    LET url == find_string(args, "filename")
    IN IF has_url_prefix(url) THEN ""
       ELSE IF url # ""
       THEN (IF url \in GoodFiles THEN "" ELSE "No such file or directory")
       ELSE (IF find_string(args, "metainfo") \in GoodMetainfo THEN ""
             ELSE "invalid bencoding")

\* what the torrent is added from: the url, the file or the metainfo
add_torrent_source(args) ==
    LET url == find_string(args, "filename")
    IN IF url # "" THEN url ELSE find_string(args, "metainfo")

\* the torrent the engine creates for the params
new_torrent(params, source) ==
    [paused |-> params.flags.paused,
     auto_managed |-> params.flags.auto_managed,
     state |-> IF has_url_prefix(source) THEN "downloading_metadata"
               ELSE "checking_files",
     download_limit |-> 0, upload_limit |-> 0, max_connections |-> 50,
     save_path |-> params.save_path, name |-> source,
     trackers |-> <<>>,
     file_prio |-> IF has_url_prefix(source) THEN <<>>
                   ELSE [i \in 1..NumFiles |-> 1]]

add_torrent(r) ==
    IF ~allow(r.perms, "add")
    THEN /\ buf' = return_failure(<<>>, "permission denied", r.tag)
         /\ calls' = <<>>
         /\ UNCHANGED <<engine, adapter>>
    ELSE IF add_torrent_error(r.args) # ""
    THEN /\ buf' = return_failure(<<>>, add_torrent_error(r.args), r.tag)
         /\ calls' = <<>>
         /\ UNCHANGED <<engine, adapter>>
    ELSE LET params == add_torrent_params(r.args)
             source == add_torrent_source(r.args)
         IN /\ next_id <= MaxTorrents
            /\ torrents' = [i \in DOMAIN torrents \cup {next_id} |->
                            IF i = next_id THEN new_torrent(params, source)
                            ELSE torrents[i]]
            /\ next_id' = next_id + 1
            /\ calls' = <<[op |-> "add_torrent", params |-> params]>>
            /\ buf' = appendf(<<>>, success_envelope(r.tag,
                        [hashString |-> source, id |-> next_id, name |-> source]))
            /\ UNCHANGED <<settings, pe_settings, listen_port, adapter>>

-----------------------------------------------------------------------------
(* torrent-get.                                                            *)

\* the fields of the catalog the model carries, in catalog order
Catalog == <<"downloadDir", "downloadLimit", "downloadLimited", "id", "name",
             "peer-limit", "uploadLimit", "uploadLimited", "status",
             "fileStats", "wanted", "priorities", "trackerStats">>

field_value(name, id, ts) ==
    CASE name = "downloadDir" -> ts.save_path
      [] name = "downloadLimit" -> ts.download_limit
      [] name = "downloadLimited" -> to_bool(ts.download_limit > 0)
      [] name = "id" -> id
      [] name = "name" -> ts.name
      [] name = "peer-limit" -> ts.max_connections
      [] name = "uploadLimit" -> ts.upload_limit
      [] name = "uploadLimited" -> to_bool(ts.upload_limit > 0)
      [] name = "status" -> torrent_tr_status(ts)
      [] name = "fileStats" ->
           [i \in 1..Len(ts.file_prio) |->
              [wanted |-> to_bool(ts.file_prio[i] # 0),
               priority |-> tr_file_priority(ts.file_prio[i])]]
      [] name = "wanted" ->
           [i \in 1..Len(ts.file_prio) |-> to_bool(ts.file_prio[i] # 0)]
      [] name = "priorities" ->
           [i \in 1..Len(ts.file_prio) |-> tr_file_priority(ts.file_prio[i])]
      [] name = "trackerStats" ->
           [i \in 1..Len(ts.trackers) |->
              [announce |-> ts.trackers[i].url,
               announceState |-> tracker_status(ts.trackers[i], ts),
               hasAnnounced |-> to_bool(ts.trackers[i].start_sent)]]

\* variant of torrent_object that writes the separator before every member
RECURSIVE torrent_object_all_separated(_, _, _, _, _)
torrent_object_all_separated(fields, id, ts, i, count) ==
    IF i > Len(Catalog) THEN <<>>
    ELSE IF Catalog[i] \in fields
    THEN <<[name |-> Catalog[i], value |-> field_value(Catalog[i], id, ts),
            sep |-> TRUE]>>
         \o torrent_object_all_separated(fields, id, ts, i + 1, count + 1)
    ELSE torrent_object_all_separated(fields, id, ts, i + 1, count)

\* the members of one per-torrent object: each requested field of the
\* catalog, count members after the start of the object; sep says that the
\* ", " at the head of the format string was written (+ (count?0:2))
RECURSIVE torrent_object(_, _, _, _, _)
torrent_object(fields, id, ts, i, count) ==
    IF i > Len(Catalog) THEN <<>>
    ELSE IF Catalog[i] \in fields
    THEN <<[name |-> Catalog[i], value |-> field_value(Catalog[i], id, ts),
            sep |-> count # 0]>>
         \o torrent_object(fields, id, ts, i + 1, count + 1)
    ELSE torrent_object(fields, id, ts, i + 1, count)

\* the per-torrent objects, in the engine's order (by id)
RECURSIVE torrent_list(_, _, _)
torrent_list(fields, ids, i) ==
    IF i > MaxTorrents THEN <<>>
    ELSE (IF i \in DOMAIN torrents /\ (ids = {} \/ i \in ids)
          THEN <<torrent_object(fields, i, torrents[i], 1, 0)>>
          ELSE <<>>) \o torrent_list(fields, ids, i + 1)

\* variant of get_torrent that turns an empty fields array away
get_torrent_nonempty(r) ==
    /\ buf' = IF ~allow(r.perms, "list")
              THEN return_failure(<<>>, "permission denied", r.tag)
              ELSE LET field_ent == find_key(r.args, "fields", "array")
                   IN IF ~field_ent.found \/ field_ent.tok.items = <<>>
                      THEN return_failure(<<>>, "missing 'field' argument", r.tag)
                      ELSE LET fields == {text_of(field_ent.tok.items[i]) :
                                          i \in 1..Len(field_ent.tok.items)}
                           IN appendf(<<>>, success_envelope(r.tag,
                                [torrents |-> torrent_list(fields,
                                                 parse_ids(r.args), 1)]))
    /\ calls' = <<>>
    /\ UNCHANGED <<engine, adapter>>

get_torrent(r) ==
    /\ buf' = IF ~allow(r.perms, "list")
              THEN return_failure(<<>>, "permission denied", r.tag)
              ELSE LET field_ent == find_key(r.args, "fields", "array")
                   IN IF ~field_ent.found
                      THEN return_failure(<<>>, "missing 'field' argument", r.tag)
                      ELSE LET fields == {text_of(field_ent.tok.items[i]) :
                                          i \in 1..Len(field_ent.tok.items)}
                           IN appendf(<<>>, success_envelope(r.tag,
                                [torrents |-> torrent_list(fields,
                                                 parse_ids(r.args), 1)]))
    /\ calls' = <<>>
    /\ UNCHANGED <<engine, adapter>>

-----------------------------------------------------------------------------
(* torrent-set.                                                            *)

\* the <<index, priority>> pairs one priority array contributes: one per
\* primitive item, in order
RECURSIVE prio_pairs(_, _, _)
prio_pairs(items, i, prio) ==
    IF i > Len(items) THEN <<>>
    ELSE (IF items[i].type # "primitive" THEN <<>>
          ELSE <<<<atoi(items[i]), prio>>>>) \o prio_pairs(items, i + 1, prio)

\* the arrays in the order the handler reads them, with the engine priority
\* each stands for
PrioArrays == <<[key |-> "files-unwanted", prio |-> 0],
                [key |-> "files-wanted", prio |-> 2],
                [key |-> "priority-high", prio |-> 7],
                [key |-> "priority-low", prio |-> 1],
                [key |-> "priority-normal", prio |-> 2]>>

\* file_priority: the pairs of all five arrays
RECURSIVE file_priority_from(_, _)
file_priority_from(args, k) ==
    IF k > Len(PrioArrays) THEN <<>>
    ELSE LET ent == find_key(args, PrioArrays[k].key, "array")
         IN (IF ent.found THEN prio_pairs(ent.tok.items, 1, PrioArrays[k].prio)
             ELSE <<>>) \o file_priority_from(args, k + 1)

file_priority(args) == file_priority_from(args, 1)

\* all_file_prio: -1, or the priority of the last array that is empty
RECURSIVE all_file_prio_from(_, _, _)
all_file_prio_from(args, k, cur) ==
    IF k > Len(PrioArrays) THEN cur
    ELSE LET ent == find_key(args, PrioArrays[k].key, "array")
         IN all_file_prio_from(args, k + 1,
               IF ent.found /\ Len(ent.tok.items) = 0
               THEN PrioArrays[k].prio ELSE cur)

all_file_prio(args) == all_file_prio_from(args, 1, -1)

\* prio[i->first] = i->second for every pair in range, in order (files are
\* numbered from 0 on the wire, from 1 in the sequence)
RECURSIVE apply_pairs(_, _, _)
apply_pairs(prio, pairs, i) ==
    IF i > Len(pairs) THEN prio
    ELSE apply_pairs(
           IF pairs[i][1] < 0 \/ pairs[i][1] >= Len(prio) THEN prio
           ELSE [prio EXCEPT ![pairs[i][1] + 1] = pairs[i][2]],
           pairs, i + 1)

\* the priorities handed to prioritize_files; applied only when at least
\* one pair was collected
new_file_prio(prio, args) ==
    IF file_priority(args) = <<>> THEN prio
    ELSE apply_pairs(
           IF all_file_prio(args) # -1
           THEN [i \in 1..Len(prio) |-> all_file_prio(args)] ELSE prio,
           file_priority(args), 1)

\* variant of add_trackers_from that takes every item, string or not
RECURSIVE add_trackers_from_every_item(_, _)
add_trackers_from_every_item(items, i) ==
    IF i > Len(items) THEN <<>>
    ELSE <<announce_entry(text_of(items[i]))>>
         \o add_trackers_from_every_item(items, i + 1)

\* trackerAdd: the string items, in order
RECURSIVE add_trackers_from(_, _)
add_trackers_from(items, i) ==
    IF i > Len(items) THEN <<>>
    ELSE (IF items[i].type # "string" THEN <<>>
          ELSE <<announce_entry(items[i].s)>>)
         \o add_trackers_from(items, i + 1)

add_trackers(args) ==
    LET tracker_add == find_key(args, "trackerAdd", "array")
    IN IF tracker_add.found THEN add_trackers_from(tracker_add.tok.items, 1)
       ELSE <<>>

\* variant of torrent_limit that does not read the limited flag
torrent_limit_unflagged(args, limit_key, limited_key) ==
    find_int(args, limit_key) * 1000

\* the limit handed to set_download_limit / set_upload_limit
torrent_limit(args, limit_key, limited_key) ==
    (IF ~find_bool(args, limited_key) THEN 0 ELSE find_int(args, limit_key)) * 1000

\* one selected handle after the handler's calls on it
set_torrent_handle(h, args) ==
    [h EXCEPT
       !.download_limit = IF found_int(args, "downloadLimit")
                          THEN torrent_limit(args, "downloadLimit", "downloadLimited")
                          ELSE @,
       !.upload_limit = IF found_int(args, "uploadLimit")
                        THEN torrent_limit(args, "uploadLimit", "uploadLimited")
                        ELSE @,
       !.save_path = IF found_string(args, "location")
                     THEN find_string(args, "location") ELSE @,
       !.max_connections = IF found_int(args, "peer-limit")
                           THEN find_int(args, "peer-limit") ELSE @,
       !.trackers = @ \o add_trackers(args),
       !.file_prio = new_file_prio(@, args)]

\* the handler appends nothing to the response buffer when it succeeds
set_torrent(r) ==
    IF ~allow_set_settings(r.perms, no_setting)
    THEN /\ buf' = return_failure(<<>>, "permission denied", r.tag)
         /\ calls' = <<>>
         /\ UNCHANGED <<engine, adapter>>
    ELSE LET handles == get_torrents(r.args)
         IN /\ torrents' = [i \in DOMAIN torrents |->
                            IF i \in handles
                            THEN set_torrent_handle(torrents[i], r.args)
                            ELSE torrents[i]]
            /\ calls' = <<>>
            /\ buf' = <<>>
            /\ UNCHANGED <<next_id, settings, pe_settings, listen_port, adapter>>

-----------------------------------------------------------------------------
(* torrent-start, torrent-start-now, torrent-stop, torrent-verify,         *)
(* torrent-reannounce, torrent-remove.                                     *)

empty_success(tag) == success_envelope(tag, [x \in {} |-> 0])

\* i->auto_managed(true); i->resume()
start_handle(h) == [h EXCEPT !.auto_managed = TRUE, !.paused = FALSE]

\* i->auto_managed(false); i->resume()
start_now_handle(h) == [h EXCEPT !.auto_managed = FALSE, !.paused = FALSE]

\* variant of stop_handle that pauses and leaves auto-managed as it is
stop_handle_pause_only(h) == [h EXCEPT !.paused = TRUE]

\* i->auto_managed(false); i->pause()
stop_handle(h) == [h EXCEPT !.auto_managed = FALSE, !.paused = TRUE]

\* i->force_recheck(): the engine checks the torrent's files again
verify_handle(h) == [h EXCEPT !.state = "checking_files"]

\* i->force_reannounce(): nothing of the torrent the adapter reads changes
reannounce_handle(h) == h

\* the loop body of the handler of method m, on one handle
change_handle(m, h) ==
    CASE m = "torrent-start" -> start_handle(h)
      [] m = "torrent-start-now" -> start_now_handle(h)
      [] m = "torrent-stop" -> stop_handle(h)
      [] m = "torrent-verify" -> verify_handle(h)
      [] m = "torrent-reannounce" -> reannounce_handle(h)

\* a handler that checks one permission, changes every selected handle and
\* answers with the empty success envelope
for_each_handle(r, perm) ==
    IF ~allow(r.perms, perm)
    THEN /\ buf' = return_failure(<<>>, "permission denied", r.tag)
         /\ calls' = <<>>
         /\ UNCHANGED <<engine, adapter>>
    ELSE LET handles == get_torrents(r.args)
         IN /\ torrents' = [i \in DOMAIN torrents |->
                            IF i \in handles THEN change_handle(r.method, torrents[i])
                            ELSE torrents[i]]
            /\ calls' = <<[op |-> r.method, handles |-> handles]>>
            /\ buf' = appendf(<<>>, empty_success(r.tag))
            /\ UNCHANGED <<next_id, settings, pe_settings, listen_port, adapter>>

start_torrent(r) == for_each_handle(r, "start")
start_torrent_now(r) == for_each_handle(r, "start")
stop_torrent(r) == for_each_handle(r, "stop")
verify_torrent(r) == for_each_handle(r, "recheck")
reannounce_torrent(r) == for_each_handle(r, "start")

\* variant of remove_torrent without the permission check
remove_torrent_unchecked(r) ==
    LET handles == get_torrents(r.args)
        delete_data == find_bool(r.args, "delete-local-data")
    IN /\ torrents' = [i \in DOMAIN torrents \ handles |-> torrents[i]]
       /\ calls' = <<[op |-> "remove_torrent", handles |-> handles,
                      delete_files |-> delete_data]>>
       /\ buf' = appendf(<<>>, empty_success(r.tag))
       /\ UNCHANGED <<next_id, settings, pe_settings, listen_port, adapter>>

remove_torrent(r) ==
    IF ~allow(r.perms, "remove")
    THEN /\ buf' = return_failure(<<>>, "permission denied", r.tag)
         /\ calls' = <<>>
         /\ UNCHANGED <<engine, adapter>>
    ELSE LET handles == get_torrents(r.args)
             delete_data == find_bool(r.args, "delete-local-data")
         IN /\ torrents' = [i \in DOMAIN torrents \ handles |-> torrents[i]]
            /\ calls' = <<[op |-> "remove_torrent", handles |-> handles,
                           delete_files |-> delete_data]>>
            /\ buf' = appendf(<<>>, empty_success(r.tag))
            /\ UNCHANGED <<next_id, settings, pe_settings, listen_port, adapter>>

-----------------------------------------------------------------------------
(* session-stats.                                                          *)

num_paused_torrents == Cardinality({i \in DOMAIN torrents : torrents[i].paused})
num_torrents == Cardinality(DOMAIN torrents)

stat_block(elapsed) ==
    [uploadedBytes |-> 0, downloadedBytes |-> 0, filesAdded |-> num_torrents,
     sessionCount |-> 1, secondsActive |-> elapsed]

\* time(nullptr) - m_start_time
Elapsed == {60}

session_stats(r, elapsed) ==
    /\ buf' = IF ~allow(r.perms, "session_status")
              THEN return_failure(<<>>, "permission denied", r.tag)
              ELSE appendf(<<>>, success_envelope(r.tag,
                     [activeTorrentCount |-> num_torrents - num_paused_torrents,
                      downloadSpeed |-> 0,
                      pausedTorrentCount |-> num_paused_torrents,
                      torrentCount |-> num_torrents,
                      uploadSpeed |-> 0,
                      cumulative_stats |-> stat_block(elapsed),
                      current_stats |-> stat_block(elapsed)]))
    /\ calls' = <<>>
    /\ UNCHANGED <<engine, adapter>>

-----------------------------------------------------------------------------
(* The history of a torrent that finished while paused.                    *)

NoPhase == [i \in 1..MaxTorrents |-> "none"]

\* seed_phase after a step from torrents ts to torrents ts2; method is the
\* request's method, or "" when the engine took the step
phase_after(phase, ts, ts2, method) ==
    [i \in 1..MaxTorrents |->
       IF i \notin DOMAIN ts \/ i \notin DOMAIN ts2 THEN "none"
       ELSE IF ts2[i].state # "seeding" THEN "none"
       ELSE IF /\ ts[i].state = "downloading"
               /\ ts[i].paused /\ ts2[i].paused THEN "seed_wait"
       ELSE IF phase[i] = "seed_wait" /\ ts2[i].paused THEN "seed_wait"
       ELSE IF /\ phase[i] = "seed_wait" /\ method = "torrent-start"
               /\ ~ts2[i].paused THEN "resumed"
       ELSE IF phase[i] = "resumed" /\ ~ts2[i].paused THEN "resumed"
       ELSE "none"]

-----------------------------------------------------------------------------
(* The dispatcher.                                                         *)

handlers == <<"torrent-add", "torrent-get", "torrent-set", "torrent-start",
              "torrent-start-now", "torrent-stop", "torrent-verify",
              "torrent-reannounce", "torrent-remove", "session-stats",
              "session-get", "session-set">>

NoMethod == "(none)"

\* a request: the top-level method and tag (optional: a sequence of at most
\* one), the arguments object (arguments: there is one), the caller's
\* permissions, and what the engine and the clock answer while it is
\* handled
Request(method, args, tag, perms, outcome) ==
    [method |-> method, arguments |-> TRUE, args |-> args, tag |-> tag,
     perms |-> perms, outcome |-> outcome]

\* a request without an arguments object: the handler gets args = NULL
BareRequest(method, tag, perms) ==
    [Request(method, <<>>, tag, perms, "first") EXCEPT !.arguments = FALSE]

\* find_int(tokens, buffer, "tag")
request_tag(r) == IF r.tag = <<>> THEN 0 ELSE r.tag[1]

\* the state before any request
NoRequest == Request("(start)", <<>>, <<>>, AllowAll, "first")

Queries == {"torrent-get", "session-get"}

\* variant of handle_json_rpc that answers a method outside the table as it
\* answers a missing method
handle_json_rpc_strict(r) ==
    /\ req' = r
    /\ prev' = IF r.method \in Queries THEN req ELSE NoRequest
    /\ IF \/ r.method = NoMethod
          \/ r.method \notin {handlers[i] : i \in 1..Len(handlers)}
       THEN /\ buf' = return_failure(<<>>, "missing method in request", -1)
            /\ calls' = <<>>
            /\ UNCHANGED <<engine, adapter>>
       ELSE LET h == [r EXCEPT !.tag = request_tag(r)]
            IN CASE r.method = "torrent-add" -> add_torrent(h)
                 [] r.method = "torrent-get" -> get_torrent(h)
                 [] r.method = "torrent-set" -> set_torrent(h)
                 [] r.method = "torrent-start" -> start_torrent(h)
                 [] r.method = "torrent-start-now" -> start_torrent_now(h)
                 [] r.method = "torrent-stop" -> stop_torrent(h)
                 [] r.method = "torrent-verify" -> verify_torrent(h)
                 [] r.method = "torrent-reannounce" -> reannounce_torrent(h)
                 [] r.method = "torrent-remove" -> remove_torrent(h)
                 [] r.method = "session-stats" ->
                      \E e \in Elapsed : session_stats(h, e)
                 [] r.method = "session-get" ->
                      \E f \in FreeSpaces : get_session(h, f)
                 [] r.method = "session-set" -> set_session(h)
                 [] OTHER -> /\ buf' = <<>>
                             /\ calls' = <<>>
                             /\ UNCHANGED <<engine, adapter>>
    /\ seed_phase' = phase_after(seed_phase, torrents, torrents', r.method)

handle_json_rpc(r) ==
    /\ req' = r
    /\ prev' = IF r.method \in Queries THEN req ELSE NoRequest
    /\ IF r.method = NoMethod
       THEN /\ buf' = return_failure(<<>>, "missing method in request", -1)
            /\ calls' = <<>>
            /\ UNCHANGED <<engine, adapter>>
       ELSE LET h == [r EXCEPT !.tag = request_tag(r)]
            IN CASE r.method = "torrent-add" -> add_torrent(h)
                 [] r.method = "torrent-get" -> get_torrent(h)
                 [] r.method = "torrent-set" -> set_torrent(h)
                 [] r.method = "torrent-start" -> start_torrent(h)
                 [] r.method = "torrent-start-now" -> start_torrent_now(h)
                 [] r.method = "torrent-stop" -> stop_torrent(h)
                 [] r.method = "torrent-verify" -> verify_torrent(h)
                 [] r.method = "torrent-reannounce" -> reannounce_torrent(h)
                 [] r.method = "torrent-remove" -> remove_torrent(h)
                 [] r.method = "session-stats" ->
                      \E e \in Elapsed : session_stats(h, e)
                 [] r.method = "session-get" ->
                      \E f \in FreeSpaces : get_session(h, f)
                 [] r.method = "session-set" -> set_session(h)
                 [] OTHER -> /\ buf' = <<>>
                             /\ calls' = <<>>
                             /\ UNCHANGED <<engine, adapter>>
    /\ seed_phase' = phase_after(seed_phase, torrents, torrents', r.method)

-----------------------------------------------------------------------------
(* The HTTP front door (handle_http).                                      *)

\* an HTTP request as handle_http reads it: its path, the permission set
\* parse_http_auth gives it (none: NULL), its content-length header as
\* atoi reads it (none: no header), what jsmn_parse makes of its body, its
\* query string (none: NULL), the torrent file of its multipart body and
\* the JSON-RPC request of its body
HttpRequest(uri, auth, cl, scan, query, upload, rpc) ==
    [uri |-> uri, auth |-> auth, cl |-> cl, scan |-> scan, query |-> query,
     upload |-> upload, rpc |-> rpc]

Routes == {"/transmission/rpc", "/rpc", "/upload"}

\* the stages of handle_http, in the order of its code
Stages == <<"route", "auth", "read", "scan", "dispatch">>

\* nothing is being handled
NoConn == [q |-> <<>>, returned |-> "idle", steps |-> <<>>, out |-> <<>>]

\* handle_http went through steps for request q, wrote out and returned
Handled(q, returned, steps, out) ==
    [q |-> <<q>>, returned |-> returned, steps |-> steps, out |-> out]

\* a response written to the connection
HttpResponse(status, reason, www_authenticate, body) ==
    [status |-> status, reason |-> reason,
     www_authenticate |-> www_authenticate, body |-> body]

Unauthorized == HttpResponse(401, "Unauthorized", TRUE, <<>>)

return_error(msg) ==
    HttpResponse(401, "Invalid Request", FALSE, <<[result |-> msg]>>)

\* variant of body_read that takes a body of exactly 10 MiB
body_read_inclusive(cl) == cl # <<>> /\ cl[1] > 0 /\ cl[1] <= 10 * 1024 * 1024

\* the body is read when the content-length header is there and in range
body_read(cl) == cl # <<>> /\ cl[1] > 0 /\ cl[1] < 10 * 1024 * 1024

ScanResults == {"JSMN_SUCCESS", "JSMN_ERROR_INVAL", "JSMN_ERROR_NOMEM",
                "JSMN_ERROR_PART"}

scan_error(r) ==
    CASE r = "JSMN_ERROR_INVAL" -> "request not JSON"
      [] r = "JSMN_ERROR_NOMEM" -> "request too big"
      [] r = "JSMN_ERROR_PART" -> "request truncated"
      [] OTHER -> "invalid request"

\* the request the dispatcher never saw
NotDispatched == Request("(http)", <<>>, <<>>, AllowAll, "first")

\* handle_http returns or stops before the dispatcher and the engine
answered(q, returned, steps, out) ==
    /\ conn' = Handled(q, returned, steps, out)
    /\ req' = NotDispatched
    /\ prev' = NoRequest
    /\ buf' = <<>>
    /\ calls' = <<>>
    /\ UNCHANGED <<engine, adapter, workers, seed_phase>>

\* mg_get_var(query, "paused") gives "true"
query_paused(query) == query = "paused=true"

\* the flags of the template as /upload changes them
upload_flags(flags, paused) ==
    IF paused THEN [flags EXCEPT !.paused = TRUE, !.auto_managed = FALSE]
    ELSE flags

\* strlen(request_info->query_string) of a request without a query string
\* reads through a null pointer: the process stops there, or goes on as
\* with an empty query string
QueryOutcomes(query) == IF query = <<>> THEN {"crash", ""} ELSE {query[1]}

\* POST /upload; the engine takes the asynchronous add at once
upload(q, perms) ==
    IF ~allow(perms, "add")
    THEN answered(q, "handled", <<"route", "auth">>, <<Unauthorized>>)
    ELSE IF q.upload \notin GoodFiles
    THEN answered(q, "handled", <<"route", "auth", "read">>,
                  <<HttpResponse(400, "Invalid Request", FALSE, <<>>)>>)
    ELSE \E way \in QueryOutcomes(q.query) :
           IF way = "crash"
           THEN answered(q, "crashed", <<"route", "auth", "read">>, <<>>)
           ELSE LET p == [m_params_model EXCEPT
                            !.flags = upload_flags(@, query_paused(way))]
                IN /\ next_id <= MaxTorrents
                   /\ torrents' = [i \in DOMAIN torrents \cup {next_id} |->
                                   IF i = next_id THEN new_torrent(p, q.upload)
                                   ELSE torrents[i]]
                   /\ next_id' = next_id + 1
                   /\ calls' = <<[op |-> "async_add_torrent", params |-> p]>>
                   /\ conn' = Handled(q, "handled",
                                       <<"route", "auth", "read">>,
                                       <<HttpResponse(200, "OK", FALSE, <<>>)>>)
                   /\ req' = NotDispatched
                   /\ prev' = NoRequest
                   /\ buf' = <<>>
                   /\ seed_phase' = phase_after(seed_phase, torrents,
                                                torrents', "")
                   /\ UNCHANGED <<settings, pe_settings, listen_port, adapter,
                                  workers>>

handle_http(q) ==
    IF q.uri \notin Routes
    THEN answered(q, "not handled", <<"route">>, <<>>)
    ELSE IF q.auth = <<>>
    THEN answered(q, "handled", <<"route", "auth">>, <<Unauthorized>>)
    ELSE IF q.uri = "/upload"
    THEN upload(q, q.auth[1])
    ELSE IF ~body_read(q.cl)
    THEN answered(q, "handled", <<"route", "auth">>,
                  <<return_error("request with no POST body")>>)
    ELSE IF q.scan # "JSMN_SUCCESS"
    THEN answered(q, "handled", <<"route", "auth", "read", "scan">>,
                  <<return_error(scan_error(q.scan))>>)
    ELSE /\ handle_json_rpc([q.rpc EXCEPT !.perms = q.auth[1]])
         /\ conn' = IF calls' = Fault
                     THEN Handled(q, "crashed", Stages, <<>>)
                     ELSE Handled(q, "handled", Stages,
                                  <<HttpResponse(200, "OK", FALSE, buf')>>)
         /\ UNCHANGED workers

\* POST /rpc by an authenticated caller with a body that is the JSON of r
post_rpc(r) ==
    handle_http(HttpRequest("/rpc", <<r.perms>>, <<Len(r.args) + 1>>,
                            "JSMN_SUCCESS", <<>>, "", r))

-----------------------------------------------------------------------------
(* Workers: the HTTP server calls handle_http from several threads.        *)

\* two workers are enough for two requests at the same time
Workers == {1, 2}

\* a worker that handles nothing
IdleWorker == [op |-> "", pc |-> "idle", value |-> "", raced |-> FALSE,
               params |-> <<>>]

NoWorkers == [w \in Workers |-> IdleWorker]

\* what a copy of a string may hold when the copy ran together with an
\* assignment to it
Torn == "(torn)"

\* the worker is between the first and the last write of a key's update
\* of the template
writing(w) == workers[w].pc \in {"clear_auto_managed", "save_path"}

\* the worker is copying the template
copying(w) == workers[w].pc = "copy"

-----------------------------------------------------------------------------
(* Construction.                                                           *)

DefaultPort == 6881

\* add_torrent_params(): default_flags holds flag_paused and flag_auto_managed
DefaultFlags == [paused |-> TRUE, auto_managed |-> TRUE]

DefaultSettings ==
    [k \in SettingIds \cup {"user_agent"} |->
       CASE k = "cache_size" -> 1024
         [] k = "active_downloads" -> 3
         [] k = "active_seeds" -> 5
         [] k = "download_rate_limit" -> 0
         [] k = "upload_rate_limit" -> 0
         [] k = "enable_incoming_utp" -> TRUE
         [] k = "enable_outgoing_utp" -> TRUE
         [] k = "connections_limit" -> 200
         [] OTHER -> "libtorrent"]

DefaultPe == [in_enc_policy |-> Enabled, out_enc_policy |-> Enabled,
              allowed_enc_level |-> "both", prefer_rc4 |-> FALSE]

\* the template the constructor leaves: the save path comes from the store
\* when there is one
restored_params(store) ==
    [save_path |-> IF store.present THEN get_str_save_path(store, ".")
                   ELSE ".",
     flags |-> DefaultFlags]

\* the port the constructor asks the engine to listen on; none when there is
\* no store or no listen_port in it
restored_listen(store) ==
    IF store.present /\ get_int_listen_port(store, -1) # -1
    THEN <<get_int_listen_port(store, -1)>>
    ELSE <<>>

\* transmission_webui(s, sett, auth): the template's save path and the
\* engine's listen port are restored from the store when there is one
constructed(store, ts, outcome) ==
    /\ torrents = ts
    /\ next_id = Cardinality(DOMAIN ts) + 1
    /\ settings = DefaultSettings
    /\ pe_settings = DefaultPe
    /\ m_settings = store
    /\ m_params_model = restored_params(store)
    /\ listen_port =
         IF restored_listen(store) # <<>>
         THEN listen_on(restored_listen(store)[1], outcome)
         ELSE DefaultPort
    /\ req = NoRequest
    /\ prev = NoRequest
    /\ buf = <<>>
    /\ calls = [i \in 1..Len(restored_listen(store)) |->
                 [op |-> "listen_on", port |-> restored_listen(store)[i]]]
    /\ conn = NoConn
    /\ workers = NoWorkers
    /\ seed_phase = NoPhase

-----------------------------------------------------------------------------
(* Requests.                                                               *)

\* the sequences over S of length n, and of length at most n
RECURSIVE SeqsOfLen(_, _)
SeqsOfLen(S, n) ==
    IF n = 0 THEN {<<>>}
    ELSE {Append(q, x) : q \in SeqsOfLen(S, n - 1), x \in S}

SeqsUpTo(S, n) == UNION {SeqsOfLen(S, k) : k \in 0..n}

\* the engine's answer matters only to a request that sets peer-port
Outcomes(args) ==
    IF \E i \in 1..Len(args) : args[i][1] = "peer-port" THEN ListenOutcomes
    ELSE {"first"}

\* no request is being answered
Idle == req = NoRequest

\* a query may follow a request at once, before anything else happens
QueryReady == req.method \notin Queries /\ conn.returned # "crashed"

\* the front door has written the response out: its buffer is gone
Respond ==
    /\ ~Idle
    /\ conn.returned # "crashed"
    /\ conn' = NoConn
    /\ req' = NoRequest
    /\ prev' = NoRequest
    /\ buf' = <<>>
    /\ calls' = <<>>
    /\ UNCHANGED <<engine, adapter, workers, seed_phase>>

SessionSetFrom(Pairs, Perms) ==
    \E args \in SeqsUpTo(Pairs, MaxKeys), p \in Perms :
      \E o \in Outcomes(args) :
        /\ Idle
        /\ post_rpc(Request("session-set", args, <<7>>, p, o))

SessionGetFrom(Perms) ==
    \E p \in Perms :
      /\ QueryReady
      /\ post_rpc(Request("session-get", <<>>, <<7>>, p, "first"))

-----------------------------------------------------------------------------
(* SpecSession: session-set over the keys of several kinds, and            *)
(* session-get, with and without a settings store.                         *)

SessionPairs == {<<"utp-enabled", BoolTok(FALSE)>>,
                 <<"encryption", StrTok("required")>>,
                 <<"encryption", StrTok("preferred")>>,
                 <<"encryption", StrTok("tolerated")>>,
                 <<"peer-port", IntTok(51413)>>,
                 <<"speed-limit-up", IntTok(5)>>,
                 <<"download-dir", StrTok("/b")>>}

SessionPerms == {AllowAll, DenySet(no_setting), DenySet("enable_incoming_utp"),
                 DenySet("enable_outgoing_utp"), DenySet("upload_rate_limit")}

NoTorrents == [i \in {} |-> 0]

InitSession ==
    \E store \in {NoStore, Store(<<>>, <<>>)} :
      constructed(store, NoTorrents, "first")

SessionSet == SessionSetFrom(SessionPairs, SessionPerms)
SessionGet == SessionGetFrom({AllowAll, DenyGet(no_setting)})

NextSession == SessionSet \/ SessionGet \/ Respond

SpecSession == InitSession /\ [][NextSession]_vars

-----------------------------------------------------------------------------
(* SpecRate: session-set over the speed-limit keys, and session-get.       *)

RatePairs == {<<"speed-limit-down-enabled", BoolTok(TRUE)>>,
              <<"speed-limit-down-enabled", BoolTok(FALSE)>>,
              <<"speed-limit-up-enabled", BoolTok(TRUE)>>,
              <<"speed-limit-up-enabled", BoolTok(FALSE)>>,
              <<"speed-limit-down", IntTok(5)>>,
              <<"speed-limit-up", IntTok(250)>>}

RatePerms == {AllowAll, DenySet("download_rate_limit"),
              DenySet("upload_rate_limit")}

RateSet == SessionSetFrom(RatePairs, RatePerms)
RateGet == SessionGetFrom({AllowAll, DenyGet(no_setting)})

NextRate == RateSet \/ RateGet \/ Respond

SpecRate == InitSession /\ [][NextRate]_vars

-----------------------------------------------------------------------------
(* SpecPort: session-set over peer-port and its neighbours, and            *)
(* session-get.                                                            *)

PortPairs == {<<"peer-port", IntTok(51413)>>, <<"peer-port", IntTok(6000)>>,
              <<"download-dir", StrTok("/b")>>}

PortSet == SessionSetFrom(PortPairs, {AllowAll, DenySet(no_setting)})
PortGet == SessionGetFrom({AllowAll})

NextPort == PortSet \/ PortGet \/ Respond

SpecPort == InitSession /\ [][NextPort]_vars

-----------------------------------------------------------------------------
(* Spec: every method, from the constructed adapter.                       *)

\* who asks, and with which tag: a permitted or denied caller, with a tag
\* or without; deny is the permission set that denies the method's gate only
Callers(deny) == {[perms |-> AllowAll, tag |-> <<7>>],
                  [perms |-> AllowAll, tag |-> <<>>],
                  [perms |-> deny, tag |-> <<7>>],
                  [perms |-> DenyAll, tag |-> <<>>]}

Ids(n) == <<"ids", ArrTok(<<IntTok(n)>>)>>
Fields(names) == <<"fields", ArrTok([i \in 1..Len(names) |-> StrTok(names[i])])>>

IdsArgs == {<<>>, <<Ids(1)>>}

AddArgs == {<<<<"filename", StrTok("a.torrent")>>>>,
            <<<<"filename", StrTok("a.torrent")>>, <<"paused", BoolTok(TRUE)>>>>,
            <<<<"filename", StrTok("missing.torrent")>>>>}

GetArgs == {<<>>, <<Fields(<<"id", "status">>)>>,
            <<Fields(<<"id", "uploadLimit">>), Ids(1)>>}

SetArgs == {<<Ids(1), <<"uploadLimit", IntTok(250)>>,
              <<"uploadLimited", BoolTok(TRUE)>>>>}

RemoveArgs == {<<>>, <<Ids(1), <<"delete-local-data", BoolTok(TRUE)>>>>}

TorrentAdd ==
    \E args \in AddArgs, c \in Callers(DenyOp("add")) :
      /\ Idle
      /\ post_rpc(Request("torrent-add", args, c.tag, c.perms, "first"))

TorrentGet ==
    \E args \in GetArgs, c \in Callers(DenyOp("list")) :
      /\ QueryReady
      /\ post_rpc(Request("torrent-get", args, c.tag, c.perms, "first"))

TorrentSet ==
    \E args \in SetArgs, c \in Callers(DenySet(no_setting)) :
      /\ Idle
      /\ post_rpc(Request("torrent-set", args, c.tag, c.perms, "first"))

TorrentStart ==
    \E args \in IdsArgs, c \in Callers(DenyOp("start")) :
      /\ Idle
      /\ post_rpc(Request("torrent-start", args, c.tag, c.perms, "first"))

TorrentStartNow ==
    \E args \in IdsArgs, c \in Callers(DenyOp("start")) :
      /\ Idle
      /\ post_rpc(Request("torrent-start-now", args, c.tag, c.perms,
                                 "first"))

TorrentStop ==
    \E args \in IdsArgs, c \in Callers(DenyOp("stop")) :
      /\ Idle
      /\ post_rpc(Request("torrent-stop", args, c.tag, c.perms, "first"))

TorrentVerify ==
    \E args \in IdsArgs, c \in Callers(DenyOp("recheck")) :
      /\ Idle
      /\ post_rpc(Request("torrent-verify", args, c.tag, c.perms, "first"))

TorrentReannounce ==
    \E args \in IdsArgs, c \in Callers(DenyOp("start")) :
      /\ Idle
      /\ post_rpc(Request("torrent-reannounce", args, c.tag, c.perms,
                                 "first"))

TorrentRemove ==
    \E args \in RemoveArgs, c \in Callers(DenyOp("remove")) :
      /\ Idle
      /\ post_rpc(Request("torrent-remove", args, c.tag, c.perms, "first"))

SessionStats ==
    \E c \in Callers(DenyOp("session_status")) :
      /\ Idle
      /\ post_rpc(Request("session-stats", <<>>, c.tag, c.perms, "first"))

SessionGetAny ==
    \E c \in Callers(DenyGet(no_setting)) :
      /\ QueryReady
      /\ post_rpc(Request("session-get", <<>>, c.tag, c.perms, "first"))

SessionSetAny ==
    \E c \in Callers(DenySet("upload_rate_limit")) :
      /\ Idle
      /\ post_rpc(Request("session-set",
                                 <<<<"speed-limit-up", IntTok(5)>>>>,
                                 c.tag, c.perms, "first"))

\* a request without a method, and one whose method is not in the table
Unhandled ==
    \E m \in {NoMethod, "torrent-rename-path"} :
      /\ Idle
      /\ post_rpc(Request(m, <<>>, <<7>>, AllowAll, "first"))

Init == constructed(Store(<<>>, <<>>), NoTorrents, "first")

Next ==
    \/ TorrentAdd \/ TorrentGet \/ TorrentSet \/ TorrentStart
    \/ TorrentStartNow \/ TorrentStop \/ TorrentVerify \/ TorrentReannounce
    \/ TorrentRemove \/ SessionStats \/ SessionGetAny \/ SessionSetAny
    \/ Unhandled \/ Respond

Spec == Init /\ [][Next]_vars

-----------------------------------------------------------------------------
(* SpecLife: torrents are added, started and stopped while the engine      *)
(* moves them through its states; torrent-get reports their status.        *)

LifeArgs == {<<>>, <<Ids(1)>>}

LifeRequest(method, Args) ==
    \E args \in Args :
      post_rpc(Request(method, args, <<7>>, AllowAll, "first"))

LifeAdd ==
    /\ Idle
    /\ LifeRequest("torrent-add",
                   {<<<<"filename", StrTok("a.torrent")>>>>,
                    <<<<"filename", StrTok("a.torrent")>>,
                      <<"paused", BoolTok(TRUE)>>>>})

LifeStart ==
    /\ Idle
    /\ LifeRequest("torrent-start", LifeArgs)

LifeStartNow ==
    /\ Idle
    /\ LifeRequest("torrent-start-now", LifeArgs)

LifeStop ==
    /\ Idle
    /\ LifeRequest("torrent-stop", LifeArgs)

LifeGet ==
    /\ QueryReady
    /\ LifeRequest("torrent-get", {<<Fields(<<"id", "status">>)>>})

\* the engine moves a torrent to another state (torrent_status::state)
EngineStateChange ==
    \E i \in DOMAIN torrents, s \in States :
      /\ Idle
      /\ s # torrents[i].state
      /\ torrents' = [torrents EXCEPT ![i].state = s]
      /\ seed_phase' = phase_after(seed_phase, torrents, torrents', "")
      /\ UNCHANGED <<next_id, settings, pe_settings, listen_port, adapter,
                     req, prev, buf, calls, conn, workers>>

\* the engine's queuing pauses or resumes a torrent that is auto-managed
\* (torrent_status::paused while torrent_status::auto_managed)
EngineQueue ==
    \E i \in DOMAIN torrents :
      /\ Idle
      /\ torrents[i].auto_managed
      /\ torrents' = [torrents EXCEPT ![i].paused = ~@]
      /\ seed_phase' = phase_after(seed_phase, torrents, torrents', "")
      /\ UNCHANGED <<next_id, settings, pe_settings, listen_port, adapter,
                     req, prev, buf, calls, conn, workers>>

InitLife == constructed(NoStore, NoTorrents, "first")

NextLife ==
    \/ LifeAdd \/ LifeStart \/ LifeStartNow \/ LifeStop \/ LifeGet
    \/ EngineStateChange \/ EngineQueue \/ Respond

SpecLife == InitLife /\ [][NextLife]_vars

-----------------------------------------------------------------------------
(* SpecPrio: torrent-set over the priority arrays of one torrent whose     *)
(* files have any engine priorities, and torrent-get.                      *)

FilePrios == {0, 1, 2, 7}

\* a torrent the session held when the adapter was constructed
held_torrent(prio) ==
    [paused |-> FALSE, auto_managed |-> TRUE, state |-> "downloading",
     download_limit |-> 0, upload_limit |-> 0, max_connections |-> 50,
     save_path |-> ".", name |-> "a.torrent", trackers |-> <<>>,
     file_prio |-> prio]

IndexArrays == {<<>>, <<IntTok(0)>>, <<IntTok(1)>>, <<IntTok(0), IntTok(1)>>,
                <<IntTok(NumFiles)>>}

PrioArgs ==
    {<<<<"files-wanted", ArrTok(a)>>>> : a \in IndexArrays}
    \cup {<<<<"files-unwanted", ArrTok(a)>>>> : a \in IndexArrays}
    \cup {<<<<"files-wanted", ArrTok(<<>>)>>,
            <<"priority-high", ArrTok(<<IntTok(0)>>)>>>>}
    \cup {<<<<key, ArrTok(a)>>>> :
            key \in {"priority-high", "priority-low", "priority-normal"},
            a \in {<<>>, <<IntTok(0)>>, <<IntTok(-1), IntTok(NumFiles - 1)>>}}
    \cup {<<<<first, ArrTok(<<IntTok(0)>>)>>, <<second, ArrTok(a)>>>> :
            first \in {"priority-normal", "files-wanted"},
            second \in {"files-unwanted", "priority-high", "priority-low"},
            a \in {<<>>, <<IntTok(0), IntTok(1)>>}}

PrioSet ==
    \E args \in PrioArgs, p \in {AllowAll, DenySet(no_setting)} :
      /\ Idle
      /\ post_rpc(Request("torrent-set", args, <<7>>, p, "first"))

PrioGet ==
    /\ QueryReady
    /\ post_rpc(Request("torrent-get",
                               <<Fields(<<"id", "fileStats", "wanted",
                                          "priorities">>)>>,
                               <<7>>, AllowAll, "first"))

InitPrio ==
    \E prio \in [1..NumFiles -> FilePrios] :
      constructed(NoStore, [i \in {1} |-> held_torrent(prio)], "first")

NextPrio == PrioSet \/ PrioGet \/ Respond

SpecPrio == InitPrio /\ [][NextPrio]_vars

-----------------------------------------------------------------------------
(* SpecIds: the per-torrent methods over every form of the ids argument.   *)

\* the forms of ids: absent, null, an integer, an array (empty, of ids of
\* torrents, of the id of no torrent)
IdsForms == {<<>>, <<<<"ids", NullTok>>>>,
             <<<<"ids", IntTok(1)>>>>, <<<<"ids", IntTok(2)>>>>,
             <<<<"ids", ArrTok(<<>>)>>>>,
             <<<<"ids", ArrTok(<<IntTok(2)>>)>>>>,
             <<<<"ids", ArrTok(<<IntTok(1), IntTok(2)>>)>>>>,
             <<<<"ids", ArrTok(<<IntTok(9)>>)>>>>}

PerTorrentMethods == {"torrent-set", "torrent-start", "torrent-start-now",
                      "torrent-stop", "torrent-verify", "torrent-reannounce",
                      "torrent-remove"}

IdsAdd ==
    /\ Idle
    /\ post_rpc(Request("torrent-add",
                               <<<<"filename", StrTok("a.torrent")>>>>,
                               <<7>>, AllowAll, "first"))

IdsChange ==
    \E m \in PerTorrentMethods, ids \in IdsForms :
      /\ Idle
      /\ post_rpc(Request(m,
           ids \o (IF m = "torrent-set"
                   THEN <<<<"peer-limit", IntTok(9)>>>> ELSE <<>>),
           <<7>>, AllowAll, "first"))

IdsGet ==
    \E ids \in IdsForms :
      /\ QueryReady
      /\ post_rpc(Request("torrent-get", <<Fields(<<"id">>)>> \o ids,
                                 <<7>>, AllowAll, "first"))

NextIds == IdsAdd \/ IdsChange \/ IdsGet \/ Respond

SpecIds == InitLife /\ [][NextIds]_vars

-----------------------------------------------------------------------------
(* SpecLimit: torrent-set over the rate limits of the torrents.            *)

LimitArgs ==
    {ids \o <<<<k, IntTok(n)>>, <<k \o "ed", BoolTok(b)>>>> :
       ids \in {<<>>, <<Ids(1)>>, <<Ids(2)>>},
       k \in {"uploadLimit", "downloadLimit"}, n \in {7, 250}, b \in BOOLEAN}

LimitSet ==
    \E args \in LimitArgs, p \in {AllowAll, DenySet(no_setting)} :
      /\ Idle
      /\ post_rpc(Request("torrent-set", args, <<7>>, p, "first"))

LimitGet ==
    /\ QueryReady
    /\ post_rpc(Request("torrent-get",
         <<Fields(<<"id", "uploadLimit", "uploadLimited", "downloadLimit",
                    "downloadLimited">>)>>,
         <<7>>, AllowAll, "first"))

NextLimit == IdsAdd \/ LimitSet \/ LimitGet \/ Respond

SpecLimit == InitLife /\ [][NextLimit]_vars

-----------------------------------------------------------------------------
(* SpecHttp: HTTP requests of every kind at the front door.                *)

\* content-length headers: none, and lengths at the edges of the range
ContentLengths == {<<>>, <<-1>>, <<0>>, <<1>>, <<10 * 1024 * 1024 - 1>>,
                   <<10 * 1024 * 1024>>, <<10 * 1024 * 1024 + 1>>}

\* who parse_http_auth finds: nobody, or a caller with or without allow_add
Auths == {<<>>, <<AllowAll>>, <<DenyOp("add")>>}

Paths == Routes \cup {"/index.html"}

HttpBodies ==
    {Request("torrent-add", <<<<"filename", StrTok("a.torrent")>>>>, <<7>>,
             AllowAll, "first"),
     Request("session-set", <<<<"start-added-torrents", BoolTok(FALSE)>>>>,
             <<7>>, AllowAll, "first")}

\* POST to a path other than /upload
HttpPost ==
    \E uri \in Paths \ {"/upload"}, auth \in Auths, cl \in ContentLengths,
       scan \in ScanResults, r \in HttpBodies :
      /\ Idle
      /\ handle_http(HttpRequest(uri, auth, cl, scan, <<>>, "", r))

\* POST /upload, with and without a query string
HttpUpload ==
    \E auth \in Auths, file \in {"a.torrent", "missing.torrent"},
       query \in {<<>>, <<"">>, <<"paused=true">>, <<"paused=false">>} :
      /\ Idle
      /\ handle_http(HttpRequest("/upload", auth, <<1>>, "JSMN_SUCCESS",
                                 query, file, NoRequest))

HttpGet ==
    /\ QueryReady
    /\ post_rpc(Request("session-get", <<>>, <<7>>, AllowAll, "first"))

NextHttp == HttpPost \/ HttpUpload \/ HttpGet \/ Respond

SpecHttp == InitLife /\ [][NextHttp]_vars

-----------------------------------------------------------------------------
(* SpecFields: torrent-get over the fields it is asked for.                *)

\* names of the catalog, and one that is not in it
FieldNames == {"id", "name", "status", "downloadDir", "bogus"}

MaxFields == 2

\* the fields argument: absent, not an array, or an array of names in any
\* order, with repetition
FieldsForms ==
    {<<>>, <<<<"fields", StrTok("id")>>>>}
      \cup {<<Fields(names)>> : names \in SeqsUpTo(FieldNames, MaxFields)}

FieldsGet ==
    \E fields \in FieldsForms, c \in Callers(DenyOp("list")) :
      /\ QueryReady
      /\ post_rpc(Request("torrent-get", fields, c.tag, c.perms, "first"))

NextFields == IdsAdd \/ FieldsGet \/ Respond

SpecFields == InitLife /\ [][NextFields]_vars

-----------------------------------------------------------------------------
(* SpecDir: the save path of the template, set by session-set and used by  *)
(* torrent-add.                                                            *)

DirPairs == {<<"download-dir", StrTok("/b")>>, <<"download-dir", StrTok("/c")>>,
             <<"start-added-torrents", BoolTok(FALSE)>>}

DirAddArgs ==
    {<<<<"filename", StrTok("a.torrent")>>>>,
     <<<<"filename", StrTok("a.torrent")>>, <<"download-dir", StrTok("/e")>>>>,
     <<<<"filename", StrTok("a.torrent")>>, <<"paused", BoolTok(TRUE)>>>>,
     <<<<"filename", StrTok("missing.torrent")>>,
       <<"download-dir", StrTok("/e")>>>>}

DirSet == SessionSetFrom(DirPairs, {AllowAll, DenySet(no_setting)})
DirGet == SessionGetFrom({AllowAll})

DirAdd ==
    \E args \in DirAddArgs, p \in {AllowAll, DenyOp("add")} :
      /\ Idle
      /\ post_rpc(Request("torrent-add", args, <<7>>, p, "first"))

NextDir == DirSet \/ DirGet \/ DirAdd \/ Respond

SpecDir == InitSession /\ [][NextDir]_vars

-----------------------------------------------------------------------------
(* SpecStart: start-added-torrents set both ways, read back by             *)
(* session-get.                                                            *)

StartPairs == {<<"start-added-torrents", BoolTok(TRUE)>>,
               <<"start-added-torrents", BoolTok(FALSE)>>,
               <<"download-dir", StrTok("/b")>>}

StartSet == SessionSetFrom(StartPairs, {AllowAll, DenySet(no_setting)})

NextStart == StartSet \/ DirGet \/ DirAdd \/ Respond

SpecStart == InitSession /\ [][NextStart]_vars

-----------------------------------------------------------------------------
(* SpecApply: session-set over keys that write the same engine setting,    *)
(* next to a key that calls the engine inside the loop.                    *)

ApplyPairs == {<<"speed-limit-down", IntTok(5)>>,
               <<"speed-limit-down-enabled", BoolTok(TRUE)>>,
               <<"speed-limit-down-enabled", BoolTok(FALSE)>>,
               <<"peer-port", IntTok(51413)>>}

ApplySet ==
    SessionSetFrom(ApplyPairs, {AllowAll, DenySet("download_rate_limit")})

NextApply == ApplySet \/ DirGet \/ Respond

SpecApply == InitSession /\ [][NextApply]_vars

-----------------------------------------------------------------------------
(* SpecRestart: the process ends and an adapter is constructed again from  *)
(* the store the last one wrote.                                           *)

\* the process starts again with a new session and the store as it was
\* saved (set_session saves it before it returns)
Restart ==
    \E outcome \in ListenOutcomes :
      /\ Idle
      /\ restored_listen(m_settings) = <<>> => outcome = "first"
      /\ torrents' = NoTorrents
      /\ next_id' = 1
      /\ settings' = DefaultSettings
      /\ pe_settings' = DefaultPe
      /\ m_settings' = m_settings
      /\ m_params_model' = restored_params(m_settings)
      /\ listen_port' =
           IF restored_listen(m_settings) # <<>>
           THEN listen_on(restored_listen(m_settings)[1], outcome)
           ELSE DefaultPort
      /\ req' = NoRequest
      /\ prev' = NoRequest
      /\ buf' = <<>>
      /\ calls' = [i \in 1..Len(restored_listen(m_settings)) |->
                    [op |-> "listen_on", port |-> restored_listen(m_settings)[i]]]
      /\ conn' = NoConn
      /\ workers' = NoWorkers
      /\ seed_phase' = NoPhase

RestartSet == SessionSetFrom(PortPairs, {AllowAll, DenySet(no_setting)})

NextRestart == RestartSet \/ IdsAdd \/ Restart \/ Respond

SpecRestart == InitSession /\ [][NextRestart]_vars

-----------------------------------------------------------------------------
(* SpecTracker: torrent-get over the trackers of a torrent, in every state *)
(* the engine may hold them in.                                            *)

MaxFails == 2

AnnounceEntries ==
    {[announce_entry("http://t/announce") EXCEPT
        !.updating = u, !.fails = f, !.fail_limit = l, !.verified = v,
        !.start_sent = s] :
       u \in BOOLEAN, f \in 0..MaxFails, l \in 0..MaxFails, v \in BOOLEAN,
       s \in BOOLEAN}

InitTracker ==
    \E ae \in AnnounceEntries, paused \in BOOLEAN :
      constructed(NoStore,
                  [i \in {1} |->
                     [held_torrent([f \in 1..NumFiles |-> 1]) EXCEPT
                        !.trackers = <<ae>>, !.paused = paused]],
                  "first")

TrackerGet ==
    /\ QueryReady
    /\ post_rpc(Request("torrent-get", <<Fields(<<"id", "trackerStats">>)>>,
                        <<7>>, AllowAll, "first"))

TrackerStop ==
    /\ Idle
    /\ post_rpc(Request("torrent-stop", <<>>, <<7>>, AllowAll, "first"))

NextTracker == TrackerGet \/ TrackerStop \/ Respond

SpecTracker == InitTracker /\ [][NextTracker]_vars

-----------------------------------------------------------------------------
(* SpecAnnounce: torrent-set over the forms of trackerAdd.                 *)

\* most trackers a torrent is given
MaxTrackers == 3

\* trackerAdd: absent, not an array, empty, strings (one twice), strings
\* among other items, no string at all
TrackerAddForms ==
    {<<<<"peer-limit", IntTok(9)>>>>,
     <<<<"trackerAdd", StrTok("http://a/announce")>>>>}
    \cup {<<<<"trackerAdd", ArrTok(items)>>>> :
            items \in {<<>>,
                       <<StrTok("http://a/announce")>>,
                       <<StrTok("http://b/announce"), StrTok("http://a/announce")>>,
                       <<StrTok("http://a/announce"), StrTok("http://a/announce")>>,
                       <<IntTok(5), StrTok("http://b/announce"), NullTok>>,
                       <<IntTok(5)>>}}

AnnounceSet ==
    \E ids \in {<<>>, <<Ids(1)>>, <<Ids(2)>>}, form \in TrackerAddForms,
       p \in {AllowAll, DenySet(no_setting)} :
      /\ Idle
      /\ \A i \in get_torrents(ids) :
           Len(torrents[i].trackers) + Len(add_trackers(form)) <= MaxTrackers
      /\ post_rpc(Request("torrent-set", ids \o form, <<7>>, p, "first"))

NextAnnounce == IdsAdd \/ AnnounceSet \/ Respond

SpecAnnounce == InitLife /\ [][NextAnnounce]_vars

-----------------------------------------------------------------------------
(* SpecBare: requests without an arguments object, among others.           *)

\* the methods whose handlers the source shows with args = NULL, and who
\* asks: session-get and session-stats never read args, every handler but
\* set_session returns "permission denied" before it reads them
BareCalls ==
    {[method |-> m, perms |-> p] :
       m \in {"session-set", "session-get", "session-stats"},
       p \in {AllowAll, DenyAll}}
      \cup {[method |-> "torrent-add", perms |-> DenyOp("add")],
            [method |-> "torrent-get", perms |-> DenyOp("list")],
            [method |-> "torrent-remove", perms |-> DenyOp("remove")]}

BareRpc ==
    \E c \in BareCalls, tag \in {<<>>, <<7>>} :
      /\ Idle
      /\ post_rpc(BareRequest(c.method, tag, c.perms))

NextBare == BareRpc \/ IdsAdd \/ DirSet \/ DirGet \/ Respond

SpecBare == InitSession /\ [][NextBare]_vars

-----------------------------------------------------------------------------
(* SpecWorkers: session-set, torrent-add and /upload handled at the same   *)
(* time on the workers, statement by statement where they touch the        *)
(* template; nothing in the adapter holds a lock.                          *)

\* the other workers
others(w) == Workers \ {w}

\* torrents being added by the workers
adding == Cardinality({w \in Workers : workers[w].pc \in {"copy", "add"}})

\* the sequential request state plays no part here
WorkerFrame == UNCHANGED <<req, prev, buf, calls, conn>>

\* session-set start-added-torrents = false: flags |= flag_paused
SetPaused(w) ==
    /\ workers[w].pc = "idle"
    /\ m_params_model' = [m_params_model EXCEPT !.flags.paused = TRUE]
    /\ workers' = [workers EXCEPT ![w] =
                     [IdleWorker EXCEPT !.op = "session-set",
                                        !.pc = "clear_auto_managed"]]
    /\ UNCHANGED <<engine, m_settings, seed_phase>>
    /\ WorkerFrame

\* flags &= ~flag_auto_managed, then the handler returns
ClearAutoManaged(w) ==
    /\ workers[w].pc = "clear_auto_managed"
    /\ m_params_model' = [m_params_model EXCEPT !.flags.auto_managed = FALSE]
    /\ workers' = [workers EXCEPT ![w] = IdleWorker]
    /\ UNCHANGED <<engine, m_settings, seed_phase>>
    /\ WorkerFrame

\* session-set download-dir = v: the assignment to save_path begins; a
\* worker that is copying or assigning at the same time races with it
AssignBegin(w, v) ==
    /\ workers[w].pc = "idle"
    /\ workers' = [x \in Workers |->
                     IF x = w
                     THEN [IdleWorker EXCEPT
                             !.op = "session-set", !.pc = "save_path",
                             !.value = v,
                             !.raced = \E y \in others(w) : writing(y)]
                     ELSE IF workers[x].pc \in {"copy", "save_path"}
                     THEN [workers[x] EXCEPT !.raced = TRUE]
                     ELSE workers[x]]
    /\ UNCHANGED <<engine, adapter, seed_phase>>
    /\ WorkerFrame

\* the assignment ends: without a race save_path is the value; the store
\* is written and the handler returns
AssignEnd(w) ==
    /\ workers[w].pc = "save_path"
    /\ \E sp \in (IF workers[w].raced THEN {workers[w].value, Torn}
                   ELSE {workers[w].value}) :
         m_params_model' = [m_params_model EXCEPT !.save_path = sp]
    /\ m_settings' = IF m_settings.present
                     THEN [m_settings EXCEPT !.save_path = <<workers[w].value>>]
                     ELSE m_settings
    /\ workers' = [workers EXCEPT ![w] = IdleWorker]
    /\ UNCHANGED <<engine, seed_phase>>
    /\ WorkerFrame

\* torrent-add or /upload: add_torrent_params p = m_params_model begins
CopyBegin(w, op) ==
    /\ workers[w].pc = "idle"
    /\ next_id + adding <= MaxTorrents
    /\ workers' = [workers EXCEPT ![w] =
                     [IdleWorker EXCEPT
                        !.op = op, !.pc = "copy",
                        !.raced = \E y \in others(w) :
                                    workers[y].pc = "save_path"]]
    /\ UNCHANGED <<engine, adapter, seed_phase>>
    /\ WorkerFrame

\* the copy ends: without a race it is the template as it is now
CopyEnd(w) ==
    /\ workers[w].pc = "copy"
    /\ \E sp \in (IF workers[w].raced
                   THEN {m_params_model.save_path, Torn}
                        \cup {workers[y].value :
                                y \in {x \in others(w) :
                                         workers[x].pc = "save_path"}}
                   ELSE {m_params_model.save_path}) :
         workers' = [workers EXCEPT ![w].pc = "add",
                       ![w].params = <<[m_params_model EXCEPT !.save_path = sp]>>]
    /\ UNCHANGED <<engine, adapter, seed_phase>>
    /\ WorkerFrame

\* the torrent is added with the copy: torrent-add sets its flags from the
\* request (no paused argument), /upload leaves them (no paused=true)
WorkerAdd(w) ==
    /\ workers[w].pc = "add"
    /\ LET copy == workers[w].params[1]
           p == IF workers[w].op = "torrent-add"
                THEN [copy EXCEPT !.flags = add_torrent_flags(@, FALSE)]
                ELSE copy
       IN torrents' = [i \in DOMAIN torrents \cup {next_id} |->
                       IF i = next_id THEN new_torrent(p, "a.torrent")
                       ELSE torrents[i]]
    /\ next_id' = next_id + 1
    /\ workers' = [workers EXCEPT ![w] = IdleWorker]
    /\ seed_phase' = phase_after(seed_phase, torrents, torrents', "")
    /\ UNCHANGED <<settings, pe_settings, listen_port, adapter>>
    /\ WorkerFrame

WorkerSet ==
    \E w \in Workers :
      \/ SetPaused(w)
      \/ ClearAutoManaged(w)
      \/ \E v \in {"/b", "/c"} : AssignBegin(w, v)
      \/ AssignEnd(w)

WorkerCopy ==
    \E w \in Workers :
      \/ \E op \in {"torrent-add", "upload"} : CopyBegin(w, op)
      \/ CopyEnd(w)
      \/ WorkerAdd(w)

NextWorkers == WorkerSet \/ WorkerCopy

SpecWorkers == InitLife /\ [][NextWorkers]_vars

-----------------------------------------------------------------------------
(* What the claims read off a request and its response.                    *)

has_key(args, key) == \E i \in 1..Len(args) : args[i][1] = key

\* the value of the last pair with the key
last_value(args, key) ==
    args[CHOOSE i \in 1..Len(args) :
           /\ args[i][1] = key
           /\ \A j \in (i + 1)..Len(args) : args[j][1] # key][2]

\* the response is one success envelope
Succeeded == Len(buf) = 1 /\ buf[1].result = "success"

\* a session-get that was answered right after a session-set
GetAfterSet ==
    /\ req.method = "session-get"
    /\ prev.method = "session-set"
    /\ Succeeded

-----------------------------------------------------------------------------
(* Claims on session-set and session-get.                                  *)

\* the setting ids a session-set key stands for
KeyIds(key) ==
    CASE key = "cache-size-mb" -> {"cache_size"}
      [] key = "download-queue-size" -> {"active_downloads"}
      [] key = "seed-queue-size" -> {"active_seeds"}
      [] key \in {"speed-limit-down", "speed-limit-down-enabled"} ->
           {"download_rate_limit"}
      [] key \in {"speed-limit-up", "speed-limit-up-enabled"} ->
           {"upload_rate_limit"}
      [] key = "utp-enabled" -> {"enable_incoming_utp", "enable_outgoing_utp"}
      [] key = "peer-limit-global" -> {"connections_limit"}
      [] OTHER -> {no_setting}

KeyDenied(key, p) == \E k \in KeyIds(key) : ~allow_set_settings(p, k)

RECURSIVE PermittedPairs(_, _, _)
PermittedPairs(args, p, i) ==
    IF i > Len(args) THEN <<>>
    ELSE (IF KeyDenied(args[i][1], p) THEN <<>> ELSE <<args[i]>>)
         \o PermittedPairs(args, p, i + 1)

\* what a key that took effect leaves behind, read in the state after the
\* request (the keys of SessionPairs)
TookEffect(key, value) ==
    CASE key = "utp-enabled" ->
           /\ settings'["enable_incoming_utp"] = text_is(value, "true")
           /\ settings'["enable_outgoing_utp"] = text_is(value, "true")
      [] key = "encryption" ->
           session_arguments(settings', pe_settings', listen_port',
                             m_params_model', 0)["encryption"] = text_of(value)
      [] key = "peer-port" ->
           \E i \in 1..Len(calls') :
             calls'[i].op = "listen_on" /\ calls'[i].port = atoi(value)
      [] key = "speed-limit-up" ->
           settings'["upload_rate_limit"] = atoi(value) * 1000
      [] key = "download-dir" -> m_params_model'.save_path = text_of(value)
      [] OTHER -> TRUE

\* C3: in a session-set request with several keys every denied key leaves
\* the engine settings, the listen port, the template and the store as they
\* were (the request does what it would do without its denied keys), and
\* every permitted recognized key still takes effect.
C3_DeniedKeysLeaveNoTrace ==
    [][(Idle /\ req'.method = "session-set" /\ Len(req'.args) > 1) =>
         LET kept == PermittedPairs(req'.args, req'.perms, 1)
             st == set_session_run(kept, AllowAll, req'.outcome)
         IN /\ settings' = apply_settings(settings, st.pack)
            /\ listen_port' = st.port
            /\ m_params_model' = st.params
            /\ m_settings' = st.store
            /\ \A i \in 1..Len(kept) :
                 kept[i][2] = last_value(kept, kept[i][1])
                   => TookEffect(kept[i][1], kept[i][2])]_vars

\* C4: every engine setting a session-set request writes was authorised by
\* allow_set_settings with that setting's own id.
C4_WrittenSettingsAuthorised ==
    req.method = "session-set" =>
      \A i \in 1..Len(calls) :
        calls[i].op = "apply_settings" =>
          \A k \in DOMAIN calls[i].pack : allow_set_settings(req.perms, k)

\* C8: a permitted session-set with encryption = v followed at once by
\* session-get returns arguments.encryption = v.
C8_EncryptionRoundTrip ==
    (/\ GetAfterSet
     /\ allow_set_settings(prev.perms, no_setting)
     /\ has_key(prev.args, "encryption"))
    => buf[1].arguments["encryption"]
         = text_of(last_value(prev.args, "encryption"))

\* the listen_on calls of the last request, in order
RECURSIVE listen_calls(_, _)
listen_calls(cs, i) ==
    IF i > Len(cs) THEN <<>>
    ELSE (IF cs[i].op = "listen_on" THEN <<cs[i].port>> ELSE <<>>)
         \o listen_calls(cs, i + 1)

RECURSIVE peer_ports(_, _)
peer_ports(args, i) ==
    IF i > Len(args) THEN <<>>
    ELSE (IF args[i][1] = "peer-port" THEN <<atoi(args[i][2])>> ELSE <<>>)
         \o peer_ports(args, i + 1)

\* C9: a permitted session-set with peer-port = P asks the engine to listen
\* on P and, when there is a store, leaves listen_port = P in it and saves
\* it in the same request; when the engine took the port, the session-get
\* that follows returns peer-port = P.
C9_PeerPortWritesThrough ==
    /\ (/\ req.method = "session-set"
        /\ allow_set_settings(req.perms, no_setting)
        /\ has_key(req.args, "peer-port"))
       => /\ listen_calls(calls, 1) = peer_ports(req.args, 1)
          /\ m_settings.present =>
               /\ m_settings.listen_port
                    = <<atoi(last_value(req.args, "peer-port"))>>
               /\ calls[Len(calls)].op = "save"
    /\ (/\ GetAfterSet
        /\ allow_set_settings(prev.perms, no_setting)
        /\ has_key(prev.args, "peer-port")
        /\ prev.outcome = "first")
       => buf[1].arguments["peer-port"]
            = atoi(last_value(prev.args, "peer-port"))

C9_Witness ==
    /\ GetAfterSet
    /\ has_key(prev.args, "peer-port")
    /\ prev.outcome = "first"
    /\ m_settings.present
    /\ m_settings.listen_port = <<51413>>
    /\ buf[1].arguments["peer-port"] = 51413

\* the settings id and the wire names of a direction
RateId(d) == IF d = "down" THEN "download_rate_limit" ELSE "upload_rate_limit"
RateKey(d) == IF d = "down" THEN "speed-limit-down" ELSE "speed-limit-up"
RateEnabledKey(d) ==
    IF d = "down" THEN "speed-limit-down-enabled" ELSE "speed-limit-up-enabled"

\* C10: a permitted session-set holding only speed-limit-d-enabled = b is
\* followed by a session-get with speed-limit-d-enabled = b and
\* speed-limit-d = 100 when b is true, 0 when b is false.
C10_RateEnabledRoundTrip ==
    \A d \in {"up", "down"}, b \in BOOLEAN :
      (/\ GetAfterSet
       /\ prev.args = <<<<RateEnabledKey(d), BoolTok(b)>>>>
       /\ allow_set_settings(prev.perms, RateId(d)))
      => /\ buf[1].arguments[RateEnabledKey(d)] = to_bool(b)
         /\ buf[1].arguments[RateKey(d)] = IF b THEN 100 ELSE 0

C10_Witness ==
    /\ GetAfterSet
    /\ prev.args = <<<<"speed-limit-down-enabled", BoolTok(TRUE)>>>>
    /\ allow_set_settings(prev.perms, "download_rate_limit")
    /\ buf[1].arguments["speed-limit-down"] = 100
    /\ buf[1].arguments["speed-limit-up"] = 250

-----------------------------------------------------------------------------
(* Claims on the response and on permissions.                              *)

HandlerNames == {handlers[i] : i \in 1..Len(handlers)}

\* C1: after the handler of a registered method returns, the response
\* buffer is not empty and holds one envelope: a success envelope, or a
\* failure envelope with result and tag only.
C1_ResponseIsOneEnvelope ==
    req.method \in HandlerNames =>
      /\ Len(buf) = 1
      /\ \/ buf[1].result = "success"
         \/ DOMAIN buf[1] = {"result", "tag"}

\* the permission predicate that gates a method
Gate(m, p) ==
    CASE m = "torrent-add" -> allow(p, "add")
      [] m = "torrent-get" -> allow(p, "list")
      [] m = "torrent-set" -> allow_set_settings(p, no_setting)
      [] m \in {"torrent-start", "torrent-start-now", "torrent-reannounce"} ->
           allow(p, "start")
      [] m = "torrent-stop" -> allow(p, "stop")
      [] m = "torrent-verify" -> allow(p, "recheck")
      [] m = "torrent-remove" -> allow(p, "remove")
      [] m = "session-stats" -> allow(p, "session_status")
      [] m = "session-get" -> allow_get_settings(p, no_setting)

Denied(r) ==
    /\ r.method \in HandlerNames \ {"session-set"}
    /\ ~Gate(r.method, r.perms)

\* C2: a request for one of the eleven gated methods whose gate is denied
\* is answered by the failure envelope "permission denied" with the
\* request's tag, and leaves the engine, the template and the store as
\* they were.
C2_DeniedLeavesNoTrace ==
    [][Denied(req') =>
         /\ buf' = <<[result |-> "permission denied", tag |-> request_tag(req')]>>
         /\ calls' = <<>>
         /\ UNCHANGED <<engine, adapter>>]_vars

C2_Witness ==
    /\ req.method = "torrent-remove"
    /\ req.tag = <<7>>
    /\ ~allow(req.perms, "remove")
    /\ DOMAIN torrents = {1, 2}
    /\ buf = <<[result |-> "permission denied", tag |-> 7]>>

-----------------------------------------------------------------------------
(* Claims on file priorities and on the status of a torrent.               *)

\* C5: a permitted torrent-set whose only priority array is files-wanted
\* makes every file of a selected torrent wanted (engine priority 2) when
\* the array is empty, and otherwise makes the listed files wanted and
\* leaves every other file its priority.
C5_FilesWanted ==
    [][(/\ Idle
        /\ req'.method = "torrent-set"
        /\ allow_set_settings(req'.perms, no_setting)
        /\ Len(req'.args) = 1
        /\ req'.args[1][1] = "files-wanted") =>
         LET items == req'.args[1][2].items
             listed == {atoi(items[k]) : k \in 1..Len(items)}
         IN \A i \in DOMAIN torrents :
              /\ i \in DOMAIN torrents'
              /\ \A f \in 1..Len(torrents[i].file_prio) :
                   torrents'[i].file_prio[f] =
                     IF items = <<>> \/ (f - 1) \in listed THEN 2
                     ELSE torrents[i].file_prio[f]]_vars

\* the members of a per-torrent object
has_member(obj, name) == \E k \in 1..Len(obj) : obj[k].name = name
member(obj, name) == obj[CHOOSE k \in 1..Len(obj) : obj[k].name = name].value

\* the per-torrent objects of the torrent-get response that carry a status
StatusReports ==
    IF req.method = "torrent-get" /\ Succeeded
    THEN {o \in {buf[1].arguments.torrents[k] :
                   k \in 1..Len(buf[1].arguments.torrents)} :
            has_member(o, "id") /\ has_member(o, "status")}
    ELSE {}

\* the status the mapping gives
mapped_status(ts) ==
    IF ts.paused /\ ~ts.auto_managed THEN 0
    ELSE CASE ts.state = "checking_resume_data" -> 2
           [] ts.state = "checking_files" -> IF ts.paused THEN 1 ELSE 2
           [] ts.state \in {"downloading_metadata", "downloading", "allocating"} ->
                IF ts.paused THEN 3 ELSE 4
           [] ts.state \in {"seeding", "finished"} -> IF ts.paused THEN 5 ELSE 6
           [] OTHER -> 0

\* C6: the status torrent-get reports for a torrent is the one the mapping
\* gives for its engine state, paused and auto_managed.
C6_StatusFollowsMapping ==
    \A o \in StatusReports :
      member(o, "status") = mapped_status(torrents[member(o, "id")])

\* C7 as stated: a torrent that went from downloading to seeding while
\* paused is reported with status 5 for as long as it stays paused, and
\* with status 6 once torrent-start has resumed it.
C7_SeedWaitWhilePaused ==
    \A o \in StatusReports :
      /\ seed_phase[member(o, "id")] = "seed_wait" => member(o, "status") = 5
      /\ seed_phase[member(o, "id")] = "resumed" => member(o, "status") = 6

\* C7: a torrent that went from downloading to seeding while paused is
\* reported, for as long as it stays paused and seeding, with status 5
\* when it is auto-managed and with status 0 when it is not; once
\* torrent-start has resumed it, it is reported with status 6 for as long
\* as it stays unpaused and seeding.
C7_SeedWaitWhileQueued ==
    \A o \in StatusReports :
      /\ seed_phase[member(o, "id")] = "seed_wait" =>
           member(o, "status") =
             IF torrents[member(o, "id")].auto_managed THEN 5 ELSE 0
      /\ seed_phase[member(o, "id")] = "resumed" => member(o, "status") = 6

C7_Witness ==
    \E o \in StatusReports, q \in StatusReports :
      /\ seed_phase[member(o, "id")] = "resumed"
      /\ member(o, "status") = 6
      /\ seed_phase[member(q, "id")] = "seed_wait"
      /\ member(q, "status") = 5

-----------------------------------------------------------------------------
(* Claims on the selection of torrents.                                    *)

\* the torrents ids stands for: all when absent or null, the one of an
\* integer, the listed ones of an array
selected_by(args) ==
    IF ~has_key(args, "ids") THEN DOMAIN torrents
    ELSE LET ids == last_value(args, "ids")
         IN IF ids.type = "array"
            THEN {i \in DOMAIN torrents :
                    \E k \in 1..Len(ids.items) : atoi(ids.items[k]) = i}
            ELSE IF ids.lit = "int" THEN {i \in DOMAIN torrents : i = ids.n}
            ELSE DOMAIN torrents

\* the torrents after the handler of method m acted on exactly the set sel
acted_on(m, args, sel) ==
    [i \in IF m = "torrent-remove" THEN DOMAIN torrents \ sel
           ELSE DOMAIN torrents |->
       IF i \notin sel THEN torrents[i]
       ELSE IF m = "torrent-set" THEN set_torrent_handle(torrents[i], args)
       ELSE change_handle(m, torrents[i])]

\* the ids of the per-torrent objects of a torrent-get response
reported_ids(b) ==
    {member(b[1].arguments.torrents[k], "id") :
       k \in 1..Len(b[1].arguments.torrents)}

\* C11: torrent-get reports, and every mutating per-torrent method acts on,
\* exactly the torrents ids stands for: all when ids is absent or null, the
\* torrent with id n for the integer n, the listed torrents for an array
\* (none for an array that is empty or lists no existing torrent).
C11_IdsSelect ==
    [][(req' # req /\ req'.method \in PerTorrentMethods \cup {"torrent-get"}) =>
         IF req'.method = "torrent-get"
         THEN /\ Len(buf') = 1 /\ buf'[1].result = "success"
              /\ reported_ids(buf') = selected_by(req'.args)
              /\ Len(buf'[1].arguments.torrents)
                   = Cardinality(selected_by(req'.args))
         ELSE torrents' = acted_on(req'.method, req'.args,
                                   selected_by(req'.args))]_vars

-----------------------------------------------------------------------------
(* Claims on the rate limits of a torrent.                                 *)

\* the limit the request asks for: N * 1000 when limited, 0 when not
asked_limit(args, limit_key, limited_key) ==
    IF text_is(last_value(args, limited_key), "true")
    THEN atoi(last_value(args, limit_key)) * 1000 ELSE 0

\* C12: a permitted torrent-set with uploadLimit = N and uploadLimited = b
\* sets the upload limit of every selected torrent to N * 1000 when b is
\* true and to 0 when b is false, and of no other torrent; the same for
\* downloadLimit and downloadLimited.
C12_LimitsOfSelected ==
    [][(/\ req' # req
        /\ req'.method = "torrent-set"
        /\ allow_set_settings(req'.perms, no_setting)) =>
         \A i \in DOMAIN torrents :
           /\ i \in DOMAIN torrents'
           /\ has_key(req'.args, "uploadLimit") /\ has_key(req'.args, "uploadLimited")
                => torrents'[i].upload_limit =
                     IF i \in get_torrents(req'.args)
                     THEN asked_limit(req'.args, "uploadLimit", "uploadLimited")
                     ELSE torrents[i].upload_limit
           /\ has_key(req'.args, "downloadLimit") /\ has_key(req'.args, "downloadLimited")
                => torrents'[i].download_limit =
                     IF i \in get_torrents(req'.args)
                     THEN asked_limit(req'.args, "downloadLimit", "downloadLimited")
                     ELSE torrents[i].download_limit]_vars

C12_Witness ==
    /\ req.method = "torrent-set"
    /\ req.args = <<Ids(1), <<"uploadLimit", IntTok(250)>>,
                    <<"uploadLimited", BoolTok(TRUE)>>>>
    /\ allow_set_settings(req.perms, no_setting)
    /\ DOMAIN torrents = {1, 2}
    /\ torrents[1].upload_limit = 250000
    /\ torrents[2].upload_limit = 7000

-----------------------------------------------------------------------------
(* Claims on the dispatcher.                                               *)

handler_calls(m) ==
    CASE m = "torrent-add" -> {"add_torrent"}
      [] m = "torrent-remove" -> {"remove_torrent"}
      [] m = "session-set" -> {"listen_on", "apply_settings", "save"}
      [] m \in {"torrent-start", "torrent-start-now", "torrent-stop",
                "torrent-verify", "torrent-reannounce"} -> {m}
      [] OTHER -> {}

\* C14: the dispatcher runs no handler but the one the method names: a
\* request without a method is answered "missing method in request" with
\* tag -1, a request whose method is not in the table gets no response
\* body, both leave the engine, the template and the store as they were;
\* the calls of a request are those of the handler of its method.
C14_OneHandlerOrNone ==
    [][(req' # req /\ req' # NoRequest) =>
         /\ \A k \in 1..Len(calls') : calls'[k].op \in handler_calls(req'.method)
         /\ req'.method \notin HandlerNames =>
              /\ UNCHANGED <<engine, adapter>>
              /\ buf' = IF req'.method = NoMethod
                        THEN <<[result |-> "missing method in request",
                                tag |-> -1]>>
                        ELSE <<>>]_vars

C14_Witness ==
    /\ req.method = "torrent-rename-path"
    /\ req.tag = <<7>>
    /\ buf = <<>>
    /\ DOMAIN torrents = {1, 2}

-----------------------------------------------------------------------------
(* Claims on the HTTP front door.                                          *)

\* the place of a stage in the order of the code
stage_index(name) == CHOOSE i \in 1..Len(Stages) : Stages[i] = name

\* the stages were gone through in the order of the code, each once
in_order(steps) ==
    \A i, j \in 1..Len(steps) :
      i < j => stage_index(steps[i]) < stage_index(steps[j])

took(c, stage) == \E i \in 1..Len(c.steps) : c.steps[i] = stage

\* handle_http has just handled a request
FrontDoorStep == conn' # conn /\ conn' # NoConn

\* C15: a request on /transmission/rpc, /rpc or /upload goes through route
\* match, authentication, body read, JSON scan and dispatch in this order
\* and gets exactly one HTTP response; without a permission set the
\* response is 401 with WWW-Authenticate, and the body is not read, nothing
\* is dispatched and the engine is not called; a body the JSON scan rejects
\* gets the error of its scan result and is not dispatched; a request on
\* another path is not handled and gets no response.
C15_FrontDoorOrder ==
    [][FrontDoorStep =>
         LET q == conn'.q[1]
         IN IF q.uri \notin Routes
            THEN /\ conn'.returned = "not handled"
                 /\ conn'.out = <<>>
            ELSE /\ in_order(conn'.steps)
                 /\ conn'.returned = "handled"
                 /\ Len(conn'.out) = 1
                 /\ q.auth = <<>> =>
                      /\ conn'.out[1].status = 401
                      /\ conn'.out[1].www_authenticate
                      /\ ~took(conn', "read")
                      /\ ~took(conn', "dispatch")
                      /\ req' = NotDispatched
                      /\ calls' = <<>>
                      /\ UNCHANGED <<engine, adapter>>
                 /\ (/\ q.auth # <<>> /\ q.uri # "/upload"
                     /\ body_read(q.cl) /\ q.scan # "JSMN_SUCCESS") =>
                      /\ conn'.out[1].status = 401
                      /\ conn'.out[1].body =
                           <<[result |->
                                CASE q.scan = "JSMN_ERROR_INVAL" ->
                                       "request not JSON"
                                  [] q.scan = "JSMN_ERROR_NOMEM" ->
                                       "request too big"
                                  [] q.scan = "JSMN_ERROR_PART" ->
                                       "request truncated"
                                  [] OTHER -> "invalid request"]>>
                      /\ ~took(conn', "dispatch")
                      /\ req' = NotDispatched
                      /\ UNCHANGED <<engine, adapter>>]_vars

\* C16: the body of a JSON-RPC request is read and handed to the JSON scan
\* exactly when its content-length header is there and its value L has
\* 1 <= L <= 10 MiB; with no header, L <= 0 or L above 10 MiB the request
\* gets the 401 error envelope "request with no POST body" and is not
\* dispatched.
C16_BodyReadInRange ==
    [][(/\ FrontDoorStep
        /\ conn'.q[1].uri \in Routes \ {"/upload"}
        /\ conn'.q[1].auth # <<>>) =>
         LET cl == conn'.q[1].cl
         IN IF cl # <<>> /\ 1 <= cl[1] /\ cl[1] <= 10 * 1024 * 1024
            THEN took(conn', "read") /\ took(conn', "scan")
            ELSE /\ ~took(conn', "read") /\ ~took(conn', "scan")
                 /\ conn'.out =
                      <<HttpResponse(401, "Invalid Request", FALSE,
                          <<[result |-> "request with no POST body"]>>)>>
                 /\ ~took(conn', "dispatch")
                 /\ req' = NotDispatched
                 /\ UNCHANGED <<engine, adapter>>]_vars

\* C16 as the code has it: the body of a JSON-RPC request is read and
\* handed to the JSON scan exactly when its content-length header is there
\* and its value L has 1 <= L < 10 MiB; with no header, L <= 0 or L at
\* 10 MiB or above the request gets the 401 error envelope "request with
\* no POST body" and is not dispatched.
C16_BodyReadBelowCap ==
    [][(/\ FrontDoorStep
        /\ conn'.q[1].uri \in Routes \ {"/upload"}
        /\ conn'.q[1].auth # <<>>) =>
         LET cl == conn'.q[1].cl
         IN IF cl # <<>> /\ 1 <= cl[1] /\ cl[1] < 10 * 1024 * 1024
            THEN took(conn', "read") /\ took(conn', "scan")
            ELSE /\ ~took(conn', "read") /\ ~took(conn', "scan")
                 /\ conn'.out =
                      <<HttpResponse(401, "Invalid Request", FALSE,
                          <<[result |-> "request with no POST body"]>>)>>
                 /\ ~took(conn', "dispatch")
                 /\ req' = NotDispatched
                 /\ UNCHANGED <<engine, adapter>>]_vars

\* an authenticated JSON-RPC request of exactly 10 MiB was turned away
C16_Witness ==
    /\ conn.q # <<>>
    /\ conn.q[1].uri = "/rpc"
    /\ conn.q[1].auth # <<>>
    /\ conn.q[1].cl = <<10 * 1024 * 1024>>
    /\ ~took(conn, "read")
    /\ conn.out[1].body = <<[result |-> "request with no POST body"]>>

\* C17: POST /upload by a caller without allow_add gets 401 and adds
\* nothing; with a multipart body that does not parse it gets 400 and adds
\* nothing; otherwise exactly one asynchronous add is issued, with a copy
\* of the template in which paused is set and auto-managed is cleared when
\* the query has paused=true; the template itself stays as it was.
C17_Upload ==
    [][(/\ FrontDoorStep
        /\ conn'.q[1].uri = "/upload"
        /\ conn'.q[1].auth # <<>>) =>
         LET q == conn'.q[1]
         IN /\ m_params_model' = m_params_model
            /\ IF ~allow(q.auth[1], "add")
               THEN /\ Len(conn'.out) = 1 /\ conn'.out[1].status = 401
                    /\ calls' = <<>>
                    /\ UNCHANGED engine
               ELSE IF q.upload \notin GoodFiles
               THEN /\ Len(conn'.out) = 1 /\ conn'.out[1].status = 400
                    /\ calls' = <<>>
                    /\ UNCHANGED engine
               ELSE calls' =
                      <<[op |-> "async_add_torrent",
                         params |->
                           IF q.query = <<"paused=true">>
                           THEN [m_params_model EXCEPT
                                   !.flags.paused = TRUE,
                                   !.flags.auto_managed = FALSE]
                           ELSE m_params_model]>>]_vars

-----------------------------------------------------------------------------
(* Claims on the fields of torrent-get.                                    *)

\* a torrent-get by a caller who may list was answered
ListedGet == req.method = "torrent-get" /\ allow(req.perms, "list")

\* the names the request asks for; none when fields is not an array
asked_names(args) ==
    LET f == find_key(args, "fields", "array")
    IN IF f.found THEN {text_of(f.tok.items[i]) : i \in 1..Len(f.tok.items)}
       ELSE {}

\* the response is one failure envelope with the tag of the request and
\* nothing else in it
FailedWithTag ==
    /\ Len(buf) = 1
    /\ DOMAIN buf[1] = {"result", "tag"}
    /\ buf[1].result # "success"
    /\ buf[1].tag = request_tag(req)

\* C18: torrent-get succeeds only with a non-empty fields array: with fields
\* absent, or present but empty, the response is a failure envelope with
\* the tag of the request and no torrents list.
C18_FieldsNonEmpty ==
    ListedGet =>
      LET f == find_key(req.args, "fields", "array")
      IN IF ~f.found \/ f.tok.items = <<>>
         THEN FailedWithTag
         ELSE Succeeded

\* C18 as the code has it: torrent-get fails, with the tag of the request
\* and no torrents list, exactly when it has no fields array; with a fields
\* array, empty or not, it succeeds, and an empty array gives one object
\* without members for each torrent.
C18_FieldsArrayPresent ==
    ListedGet =>
      LET f == find_key(req.args, "fields", "array")
      IN IF ~f.found
         THEN FailedWithTag /\ buf[1].result = "missing 'field' argument"
         ELSE /\ Succeeded
              /\ f.tok.items = <<>> =>
                   \A k \in 1..Len(buf[1].arguments.torrents) :
                     buf[1].arguments.torrents[k] = <<>>

\* a torrent-get with an empty fields array succeeded with a torrent in its
\* list
C18_Witness ==
    /\ ListedGet
    /\ find_key(req.args, "fields", "array").found
    /\ find_key(req.args, "fields", "array").tok.items = <<>>
    /\ Succeeded
    /\ Len(buf[1].arguments.torrents) = MaxTorrents

CatalogNames == {Catalog[i] : i \in 1..Len(Catalog)}

catalog_index(name) == CHOOSE i \in 1..Len(Catalog) : Catalog[i] = name

\* C19: each per-torrent object of a torrent-get response has exactly the
\* requested names that are in the catalog, each once, in catalog order
\* whatever the order and repetition in the request, with the separator
\* between members and none before the first; a requested name outside the
\* catalog adds nothing.
C19_CatalogOrder ==
    (ListedGet /\ Succeeded) =>
      \A k \in 1..Len(buf[1].arguments.torrents) :
        LET obj == buf[1].arguments.torrents[k]
            names == asked_names(req.args) \cap CatalogNames
        IN /\ {obj[i].name : i \in 1..Len(obj)} = names
           /\ Len(obj) = Cardinality(names)
           /\ \A i, j \in 1..Len(obj) :
                i < j => catalog_index(obj[i].name) < catalog_index(obj[j].name)
           /\ \A i \in 1..Len(obj) : obj[i].sep <=> i > 1

\* a request for status, then id, was answered with id, then status
C19_Witness ==
    /\ ListedGet
    /\ Succeeded
    /\ find_key(req.args, "fields", "array").tok.items
         = <<StrTok("status"), StrTok("id")>>
    /\ Len(buf[1].arguments.torrents) > 0
    /\ buf[1].arguments.torrents[1][1].name = "id"
    /\ buf[1].arguments.torrents[1][2].name = "status"
    /\ buf[1].arguments.torrents[1][2].sep

-----------------------------------------------------------------------------
(* Claims on the template of added torrents.                               *)

\* C20: once a permitted session-set with start-added-torrents = false has
\* set paused and cleared auto-managed in the template, a torrent-add
\* without a paused argument adds its torrent paused and not auto-managed.
C20_AddFollowsTemplate ==
    [][(/\ req' # req
        /\ req'.method = "torrent-add"
        /\ ~find_key(req'.args, "paused", "primitive").found
        /\ m_params_model.flags.paused
        /\ ~m_params_model.flags.auto_managed
        /\ next_id' = next_id + 1) =>
         /\ torrents'[next_id].paused
         /\ ~torrents'[next_id].auto_managed]_vars

-----------------------------------------------------------------------------
(* Claims on the save path of the template.                                *)

\* the request just handled is a session-set that may write key
PermittedSet(r, key) ==
    /\ r.method = "session-set"
    /\ allow_set_settings(r.perms, no_setting)
    /\ has_key(r.args, key)

\* C21: a permitted session-set with download-dir = D makes D the save path
\* of the template, session-get reports the save path of the template, and
\* a torrent-add without download-dir adds its torrent with that save path;
\* a torrent-add with download-dir = E (a path, not the empty string) adds
\* its torrent with save path E; no torrent-add changes the template, whose
\* save path changes only by such a session-set.
C21_DownloadDir ==
    [][req' # req =>
         /\ PermittedSet(req', "download-dir") =>
              m_params_model'.save_path
                = text_of(last_value(req'.args, "download-dir"))
         /\ m_params_model'.save_path # m_params_model.save_path =>
              PermittedSet(req', "download-dir")
         /\ (req'.method = "session-get" /\ Len(buf') = 1
             /\ buf'[1].result = "success") =>
              /\ buf'[1].arguments["download-dir"] = m_params_model.save_path
              /\ PermittedSet(prev', "download-dir") =>
                   buf'[1].arguments["download-dir"]
                     = text_of(last_value(prev'.args, "download-dir"))
         /\ req'.method = "torrent-add" =>
              /\ m_params_model' = m_params_model
              /\ next_id' # next_id =>
                   /\ DOMAIN torrents' = DOMAIN torrents \cup {next_id}
                   /\ \A i \in DOMAIN torrents : torrents'[i] = torrents[i]
                   /\ torrents'[next_id].save_path =
                        IF has_key(req'.args, "download-dir")
                        THEN text_of(last_value(req'.args, "download-dir"))
                        ELSE m_params_model.save_path]_vars

\* after download-dir was set to /b, one torrent was added there and the
\* next one, with download-dir = /e, elsewhere
C21_Witness ==
    /\ req.method = "torrent-add"
    /\ has_key(req.args, "download-dir")
    /\ m_params_model.save_path = "/b"
    /\ DOMAIN torrents = {1, 2}
    /\ torrents[1].save_path = "/b"
    /\ torrents[2].save_path = "/e"

-----------------------------------------------------------------------------
(* Claims on the settings store.                                           *)

\* an adapter has just been constructed in place of the last one
RestartStep == req = NoRequest /\ req' = NoRequest /\ torrents' = NoTorrents

\* C22: a permitted session-set leaves the last download-dir and the last
\* peer-port it wrote in the store as save_path and listen_port, and the
\* store changes in no other way; an adapter constructed afterwards from
\* that store has the stored save_path as the save path of its template and
\* asks the engine to listen on the stored listen_port; with no stored
\* save_path the save path is ".", and with no stored listen_port, or no
\* store, the constructor makes no listen call.
C22_StoreSurvivesRestart ==
    [][/\ (req' # req /\ m_settings.present) =>
            /\ PermittedSet(req', "download-dir") =>
                 m_settings'.save_path
                   = <<text_of(last_value(req'.args, "download-dir"))>>
            /\ PermittedSet(req', "peer-port") =>
                 m_settings'.listen_port
                   = <<atoi(last_value(req'.args, "peer-port"))>>
       /\ m_settings'.save_path # m_settings.save_path =>
            PermittedSet(req', "download-dir")
       /\ m_settings'.listen_port # m_settings.listen_port =>
            PermittedSet(req', "peer-port")
       /\ RestartStep =>
            /\ m_settings' = m_settings
            /\ m_params_model'.save_path =
                 IF m_settings.present /\ m_settings.save_path # <<>>
                 THEN m_settings.save_path[1] ELSE "."
            /\ listen_calls(calls', 1) =
                 IF m_settings.present THEN m_settings.listen_port ELSE <<>>]_vars

\* an adapter constructed from a store holding /b and 6000 took both
C22_Witness ==
    /\ Idle
    /\ m_settings.present
    /\ m_settings.save_path = <<"/b">>
    /\ m_settings.listen_port = <<6000>>
    /\ m_params_model.save_path = "/b"
    /\ calls = <<[op |-> "listen_on", port |-> 6000]>>

-----------------------------------------------------------------------------
(* Claims on requests handled at the same time.                            *)

\* C23: accesses to the template exclude each other: while a worker is
\* between the writes of one key's update, no other worker copies or writes
\* the template, so no copy and no template holds a state that is neither
\* the one before nor the one after an update.
C23_TemplateExclusive ==
    /\ \A w \in Workers : \A x \in Workers \ {w} :
         ~(writing(w) /\ (writing(x) \/ copying(x)))
    /\ m_params_model.save_path # Torn
    /\ \A w \in Workers :
         workers[w].params # <<>> => workers[w].params[1].save_path # Torn

-----------------------------------------------------------------------------
(* Claims on requests without arguments.                                   *)

\* C24: every request that passed the JSON scan is handled to the end: the
\* handler returns and the front door writes its one response, also for a
\* request that names a method of the table and has no arguments object.
C24_NoFatalError ==
    took(conn, "dispatch") =>
      /\ conn.returned = "handled"
      /\ Len(conn.out) = 1
      /\ conn.out[1].status = 200

-----------------------------------------------------------------------------
(* Claims on trackers.                                                     *)

\* C25: the announceState torrent-get reports for a tracker is 3 while the
\* tracker is updating, also when the torrent is paused; otherwise 0 when
\* the torrent is paused; otherwise 0 when fails >= fail_limit; otherwise 1
\* when the tracker is verified and start was sent; otherwise 2.
C25_AnnounceState ==
    (ListedGet /\ Succeeded /\ "trackerStats" \in asked_names(req.args)) =>
      \A k \in 1..Len(buf[1].arguments.torrents) :
        LET obj == buf[1].arguments.torrents[k]
            ts == torrents[member(obj, "id")]
            stats == member(obj, "trackerStats")
        IN /\ Len(stats) = Len(ts.trackers)
           /\ \A i \in 1..Len(stats) :
                LET ae == ts.trackers[i]
                IN stats[i].announceState =
                     CASE ae.updating -> 3
                       [] ~ae.updating /\ ts.paused -> 0
                       [] ~ae.updating /\ ~ts.paused
                          /\ ae.fails >= ae.fail_limit -> 0
                       [] ~ae.updating /\ ~ts.paused
                          /\ ae.fails < ae.fail_limit
                          /\ ae.verified /\ ae.start_sent -> 1
                       [] OTHER -> 2

\* a tracker that is updating in a paused torrent was reported active
C25_Witness ==
    /\ ListedGet
    /\ Succeeded
    /\ Len(buf[1].arguments.torrents) = 1
    /\ torrents[1].paused
    /\ torrents[1].trackers[1].updating
    /\ member(buf[1].arguments.torrents[1], "trackerStats")[1].announceState = 3

-----------------------------------------------------------------------------
(* Claims on starting and stopping.                                        *)

\* the torrent is paused and not auto-managed, as torrent-stop leaves it
held_stopped(ts) == ts.paused /\ ~ts.auto_managed

\* the flags of the selected torrents after the method, the others as they
\* were
flags_after(m, sel) ==
    [i \in DOMAIN torrents |->
       IF i \notin sel THEN torrents[i]
       ELSE CASE m = "torrent-start" ->
                   [torrents[i] EXCEPT !.auto_managed = TRUE, !.paused = FALSE]
              [] m = "torrent-start-now" ->
                   [torrents[i] EXCEPT !.auto_managed = FALSE, !.paused = FALSE]
              [] m = "torrent-stop" ->
                   [torrents[i] EXCEPT !.auto_managed = FALSE, !.paused = TRUE]]

\* C26: torrent-start sets auto-managed and resumes, torrent-start-now
\* clears auto-managed and resumes, torrent-stop clears auto-managed and
\* pauses, each on exactly the selected torrents and leaving the others as
\* they were; a stopped torrent stays stopped until a torrent-start or
\* torrent-start-now, and every torrent-get in between reports status 0 for
\* it, whatever its engine state.
C26_StartStop ==
    /\ [][/\ (/\ req' # req
              /\ req'.method \in {"torrent-start", "torrent-start-now",
                                   "torrent-stop"}
              /\ Gate(req'.method, req'.perms)) =>
                torrents' = flags_after(req'.method, selected_by(req'.args))
          /\ \A i \in DOMAIN torrents \cap DOMAIN torrents' :
               (held_stopped(torrents[i]) /\ ~held_stopped(torrents'[i])) =>
                 /\ req' # req
                 /\ req'.method \in {"torrent-start", "torrent-start-now"}
                 /\ i \in selected_by(req'.args)]_vars
    /\ [](ListedGet /\ Succeeded /\ "status" \in asked_names(req.args) =>
            \A k \in 1..Len(buf[1].arguments.torrents) :
              LET obj == buf[1].arguments.torrents[k]
              IN held_stopped(torrents[member(obj, "id")]) =>
                   member(obj, "status") = 0)

\* a seeding torrent was stopped and the torrent-get right after reported 0
C26_Witness ==
    /\ ListedGet
    /\ Succeeded
    /\ prev.method = "torrent-stop"
    /\ DOMAIN torrents = {1, 2}
    /\ torrents[1].state = "seeding"
    /\ held_stopped(torrents[1])
    /\ ~held_stopped(torrents[2])
    /\ member(buf[1].arguments.torrents[1], "status") = 0

-----------------------------------------------------------------------------
(* Claims on the priority arrays of torrent-set.                            *)

\* the priority arrays a request carries, by their place in the order
\* files-unwanted, files-wanted, priority-high, priority-low,
\* priority-normal
carried(args) ==
    {k \in 1..Len(PrioArrays) :
       \E a \in 1..Len(args) :
         args[a][1] = PrioArrays[k].key /\ args[a][2].type = "array"}

array_of(args, k) ==
    args[CHOOSE a \in 1..Len(args) :
           args[a][1] = PrioArrays[k].key /\ args[a][2].type = "array"][2].items

\* the arrays that list file f (numbered from 0)
listing(args, f) ==
    {k \in carried(args) :
       \E n \in 1..Len(array_of(args, k)) : atoi(array_of(args, k)[n]) = f}

empty_arrays(args) == {k \in carried(args) : array_of(args, k) = <<>>}

greatest(S) == CHOOSE k \in S : \A j \in S : j <= k

\* the priorities the arrays ask for: the default of an empty array on
\* every file, then the last array that lists the file
asked_file_prio(prio, args) ==
    [n \in 1..Len(prio) |->
       IF listing(args, n - 1) # {}
       THEN PrioArrays[greatest(listing(args, n - 1))].prio
       ELSE IF empty_arrays(args) # {}
       THEN PrioArrays[greatest(empty_arrays(args))].prio
       ELSE prio[n]]

\* a permitted torrent-set that carries a priority array
PrioritySet ==
    /\ Idle
    /\ req'.method = "torrent-set"
    /\ allow_set_settings(req'.perms, no_setting)
    /\ carried(req'.args) # {}

\* C27: torrent-set gives every file of a selected torrent the default of
\* an empty priority array (unwanted 0, low 1, normal 2, high 7), then the
\* priority of each non-empty array at the indices it lists, the arrays
\* taking effect in the order files-unwanted, files-wanted, priority-high,
\* priority-low, priority-normal so that the last one wins; an index below
\* 0 or at or above the number of files is ignored and the number of files
\* never changes.
C27_PriorityArrays ==
    [][PrioritySet =>
         \A i \in selected_by(req'.args) :
           /\ i \in DOMAIN torrents'
           /\ Len(torrents'[i].file_prio) = Len(torrents[i].file_prio)
           /\ torrents'[i].file_prio =
                asked_file_prio(torrents[i].file_prio, req'.args)]_vars

\* a torrent-get that was answered right after a permitted torrent-set
\* with priority arrays
GetAfterPrioritySet ==
    /\ ListedGet
    /\ Succeeded
    /\ prev.method = "torrent-set"
    /\ allow_set_settings(prev.perms, no_setting)
    /\ carried(prev.args) # {}

\* what torrent-get reports for a file listed under the array: priority on
\* the wire scale (files-unwanted and files-wanted name none) and wanted
wire_of(k) ==
    CASE PrioArrays[k].key = "files-unwanted" -> [wanted |-> "false"]
      [] PrioArrays[k].key = "files-wanted" -> [wanted |-> "true"]
      [] PrioArrays[k].key = "priority-high" -> [wanted |-> "true", priority |-> 1]
      [] PrioArrays[k].key = "priority-low" -> [wanted |-> "true", priority |-> -1]
      [] PrioArrays[k].key = "priority-normal" -> [wanted |-> "true", priority |-> 0]

\* C28: after a torrent-set lists file i under priority-low,
\* priority-normal or priority-high, torrent-get reports priority -1, 0 or
\* 1 for it, in priorities and in fileStats, with wanted true; after
\* files-unwanted it reports wanted false (the array that takes effect last
\* when several list the file); every reported priority is -1, 0 or 1.
C28_PriorityRoundTrip ==
    (ListedGet /\ Succeeded) =>
      \A t \in 1..Len(buf[1].arguments.torrents) :
        LET obj == buf[1].arguments.torrents[t]
            priorities == member(obj, "priorities")
            wanted == member(obj, "wanted")
            fileStats == member(obj, "fileStats")
        IN \A n \in 1..Len(priorities) :
             /\ priorities[n] \in {-1, 0, 1}
             /\ fileStats[n].priority \in {-1, 0, 1}
             /\ (GetAfterPrioritySet /\ listing(prev.args, n - 1) # {}) =>
                  LET wire == wire_of(greatest(listing(prev.args, n - 1)))
                  IN /\ wanted[n] = wire.wanted
                     /\ fileStats[n].wanted = wire.wanted
                     /\ "priority" \in DOMAIN wire =>
                          /\ priorities[n] = wire.priority
                          /\ fileStats[n].priority = wire.priority

\* the first file was listed under priority-low and the torrent-get right
\* after reported -1 and wanted for it, next to a file of high priority
C28_Witness ==
    /\ GetAfterPrioritySet
    /\ prev.args = <<<<"priority-low", ArrTok(<<IntTok(0)>>)>>>>
    /\ member(buf[1].arguments.torrents[1], "priorities")[1] = -1
    /\ member(buf[1].arguments.torrents[1], "fileStats")[1].priority = -1
    /\ member(buf[1].arguments.torrents[1], "wanted")[1] = "true"
    /\ member(buf[1].arguments.torrents[1], "priorities")[2] = 1

-----------------------------------------------------------------------------
(* Claims on the per-torrent rate limits, read back.                       *)

\* a torrent-get that was answered right after a permitted torrent-set
\* that set the limit and its limited flag to true
GetAfterLimit(limit_key, limited_key) ==
    /\ ListedGet
    /\ Succeeded
    /\ prev.method = "torrent-set"
    /\ allow_set_settings(prev.perms, no_setting)
    /\ has_key(prev.args, limit_key)
    /\ has_key(prev.args, limited_key)
    /\ text_is(last_value(prev.args, limited_key), "true")

\* the torrent-get reports the limit of the torrent-set for every torrent
\* the torrent-set selected, in the unit given, and limited when N > 0
reads_back(limit_key, limited_key, unit) ==
    GetAfterLimit(limit_key, limited_key) =>
      \A t \in 1..Len(buf[1].arguments.torrents) :
        LET obj == buf[1].arguments.torrents[t]
            N == atoi(last_value(prev.args, limit_key))
        IN member(obj, "id") \in get_torrents(prev.args) =>
             /\ member(obj, limit_key) = N * unit
             /\ N > 0 => member(obj, limited_key) = "true"

\* C29: the per-torrent limits are in kB/s in both directions: after a
\* torrent-set with uploadLimit = N and uploadLimited = true, torrent-get
\* returns uploadLimit = N for the torrent, and uploadLimited = true when
\* N > 0; the same for downloadLimit.
C29_LimitRoundTrip ==
    /\ reads_back("uploadLimit", "uploadLimited", 1)
    /\ reads_back("downloadLimit", "downloadLimited", 1)

-----------------------------------------------------------------------------
(* Claims on start-added-torrents.                                         *)

\* the request is a permitted session-set that carries
\* start-added-torrents with a value other than true
WroteStartFalse ==
    /\ req.method = "session-set"
    /\ allow_set_settings(req.perms, no_setting)
    /\ \E k \in 1..Len(req.args) :
         /\ req.args[k][1] = "start-added-torrents"
         /\ ~text_is(req.args[k][2], "true")

\* a permitted session-set with start-added-torrents = false pauses the
\* template and clears its auto-managed flag; one with true changes
\* neither flag
StartFlagsStep ==
    (Idle /\ req'.method = "session-set") =>
      IF WroteStartFalse'
      THEN /\ m_params_model'.flags.paused
           /\ ~m_params_model'.flags.auto_managed
      ELSE m_params_model'.flags = m_params_model.flags

\* C30: start-added-torrents = false sets the template's paused flag and
\* clears its auto-managed flag, and true changes neither, so that once a
\* permitted session-set has written false every later session-get reports
\* start-added-torrents = false, whatever session-sets follow.
C30_StartAddedLatch ==
    /\ [][StartFlagsStep]_vars
    /\ [](WroteStartFalse =>
            [](req.method = "session-get" /\ Succeeded =>
                 buf[1].arguments["start-added-torrents"] = "false"))

\* a session-get reported false right after a permitted session-set that
\* carried only start-added-torrents = true
C30_Witness ==
    /\ req.method = "session-get"
    /\ Succeeded
    /\ prev.method = "session-set"
    /\ allow_set_settings(prev.perms, no_setting)
    /\ prev.args = <<<<"start-added-torrents", BoolTok(TRUE)>>>>
    /\ buf[1].arguments["start-added-torrents"] = "false"

-----------------------------------------------------------------------------
(* Claims on the settings bundle of session-set.                           *)

\* the places of the calls of one kind in the log of engine calls
calls_of(log, op) == {i \in 1..Len(log) : log[i].op = op}

\* the keys of the request that write the download rate limit
down_keys(args) ==
    {i \in 1..Len(args) :
       args[i][1] \in {"speed-limit-down", "speed-limit-down-enabled"}}

\* the download rate limit the key asks of the engine
asked_down_rate(pair) ==
    IF pair[1] = "speed-limit-down" THEN atoi(pair[2]) * 1000
    ELSE IF text_is(pair[2], "true") THEN EnabledRate ELSE 0

\* C31: a session-set applies its settings bundle to the engine exactly
\* once, after every key was processed, and then flushes the store exactly
\* once when there is one and never otherwise; nothing before the one
\* apply_settings writes an engine setting, and when several keys write
\* the download rate limit the engine ends with the value of the last of
\* them in the request.
C31_BundleAppliedOnce ==
    [][(Idle /\ req'.method = "session-set") =>
         LET applied == calls_of(calls', "apply_settings")
             saved == calls_of(calls', "save")
             down == down_keys(req'.args)
         IN /\ Cardinality(applied) = 1
            /\ Cardinality(saved) = IF m_settings.present THEN 1 ELSE 0
            /\ \A i \in applied :
                 /\ \A j \in 1..(i - 1) : calls'[j].op = "listen_on"
                 /\ \A j \in (i + 1)..Len(calls') : calls'[j].op = "save"
                 /\ settings' = apply_settings(settings, calls'[i].pack)
            /\ \A k \in DOMAIN settings :
                 settings'[k] =
                   IF /\ k = "download_rate_limit"
                      /\ down # {}
                      /\ allow_set_settings(req'.perms, "download_rate_limit")
                   THEN asked_down_rate(req'.args[greatest(down)])
                   ELSE settings[k]]_vars

\* a request enabled the download limit and then set it to 5: the engine
\* holds 5000 after one apply_settings and one save
C31_Witness ==
    /\ req.method = "session-set"
    /\ req.args = <<<<"speed-limit-down-enabled", BoolTok(TRUE)>>,
                    <<"speed-limit-down", IntTok(5)>>>>
    /\ allow_set_settings(req.perms, "download_rate_limit")
    /\ settings["download_rate_limit"] = 5000
    /\ m_settings.present
    /\ Len(calls) = 2
    /\ calls[1].op = "apply_settings"
    /\ calls[2].op = "save"

-----------------------------------------------------------------------------
(* Claims on trackerAdd.                                                   *)

\* the announce URLs of a tracker list, in order
urls_of(trackers) == [k \in 1..Len(trackers) |-> trackers[k].url]

\* the texts of the string items of trackerAdd in request order; none when
\* trackerAdd is absent or not an array
added_urls(args) ==
    IF has_key(args, "trackerAdd") /\ last_value(args, "trackerAdd").type = "array"
    THEN LET items == last_value(args, "trackerAdd").items
             strings == {k \in 1..Len(items) : items[k].type = "string"}
             nth(n) == CHOOSE k \in strings :
                         Cardinality({j \in strings : j < k}) = n - 1
         IN [n \in 1..Cardinality(strings) |-> items[nth(n)].s]
    ELSE <<>>

\* C32: after a permitted torrent-set the tracker list of every selected
\* torrent is its previous list, entry for entry, followed by the string
\* items of trackerAdd in request order (the other items skipped, nothing
\* removed, reordered or de-duplicated), and the list of every other
\* torrent is unchanged; with trackerAdd absent or holding no string the
\* list of every torrent is unchanged.
C32_TrackerAddAppends ==
    [][(/\ Idle
        /\ req'.method = "torrent-set"
        /\ allow_set_settings(req'.perms, no_setting)) =>
         \A i \in DOMAIN torrents :
           /\ i \in DOMAIN torrents'
           /\ IF i \in selected_by(req'.args)
              THEN LET old == torrents[i].trackers
                       new == torrents'[i].trackers
                   IN /\ Len(new) = Len(old) + Len(added_urls(req'.args))
                      /\ SubSeq(new, 1, Len(old)) = old
                      /\ urls_of(new) = urls_of(old) \o added_urls(req'.args)
              ELSE torrents'[i].trackers = torrents[i].trackers]_vars

\* the first of two torrents holds a tracker twice and then a second one,
\* added by a request whose array held other items too; the other torrent
\* holds none
C32_Witness ==
    /\ req.method = "torrent-set"
    /\ allow_set_settings(req.perms, no_setting)
    /\ req.args = <<Ids(1), <<"trackerAdd",
                   ArrTok(<<IntTok(5), StrTok("http://b/announce"), NullTok>>)>>>>
    /\ DOMAIN torrents = {1, 2}
    /\ urls_of(torrents[1].trackers) =
         <<"http://a/announce", "http://a/announce", "http://b/announce">>
    /\ torrents[2].trackers = <<>>

=============================================================================
